---- MODULE Spec2Model ----
(***************************************************************************)
(* GhostEdit export compositing engine.                                    *)
(*                                                                         *)
(* exportVideo (src/main/services/ffmpeg.ts) as a state machine over a     *)
(* shared file system, one process per export job, one action per          *)
(* continuation between two awaits; resolveFontPath / downloadGoogleFont   *)
(* (src/main/services/fonts.ts) as a state machine over the on-disk font   *)
(* cache.  Times are in hundredths of a second.                            *)
(***************************************************************************)
EXTENDS Integers, Sequences, FiniteSets, TLC

\* ------------------------------------------------------------------------
\* Bounds
\* ------------------------------------------------------------------------
MaxClips == 2
MaxT == 2
MaxProgressClips == 12

\* ------------------------------------------------------------------------
\* Generic helpers
\* ------------------------------------------------------------------------
SeqsUpTo(S, n) == UNION {[1..k -> S] : k \in 0..n}

Max2(a, b) == IF a >= b THEN a ELSE b

RECURSIVE SumSeq(_)
SumSeq(s) == IF s = <<>> THEN 0 ELSE Head(s) + SumSeq(Tail(s))

RECURSIVE MaxSeq(_)
MaxSeq(s) == IF s = <<>> THEN 0 ELSE Max2(Head(s), MaxSeq(Tail(s)))

RECURSIVE Flatten(_)
Flatten(ss) == IF ss = <<>> THEN <<>> ELSE Head(ss) \o Flatten(Tail(ss))

Range(s) == {s[k] : k \in DOMAIN s}

\* Math.round(a / b) for a >= 0, b > 0 (round half up).
RoundDiv(a, b) == (2 * a + b) \div (2 * b)

\* ------------------------------------------------------------------------
\* File system: a function from the existing paths to their contents.
\* A path is <<dir, name>>; dir is <<root, base, stamp>>, name is
\* <<stem, index, ext>>.
\* ------------------------------------------------------------------------
Write(f, p, c) == [q \in (DOMAIN f) \cup {p} |-> IF q = p THEN c ELSE f[q]]

Remove(f, p) == [q \in (DOMAIN f) \ {p} |-> f[q]]

Exists(f, p) == p \in DOMAIN f

PathJoin(dir, name) == <<dir, name>>

EmptyFs == [q \in {} |-> 0]

\* fs.realpathSync(os.tmpdir()): one directory shared by the whole process.
TmpDir == <<"tmp", "", 0>>

NoDir == <<"", "", 0>>

\* path.join(outputDir, `${outputBaseName}_debug_${Date.now()}`)
DebugDirName(outputPath, now) == <<outputPath.dir, outputPath.base, now>>

OutputFile(outputPath) == PathJoin(<<outputPath.dir, "", 0>>, <<outputPath.base, 0, outputPath.ext>>)

SegPath(tmpDir, i) == PathJoin(tmpDir, <<"ve_seg", i, "mp4">>)

SegmentListPath(tmpDir) == PathJoin(tmpDir, <<"ve_segments", 0, "txt">>)

ConcatPath(tmpDir) == PathJoin(tmpDir, <<"ve_concat", 0, "mp4">>)

AssFilePath(tmpDir) == PathJoin(tmpDir, <<"ve_captions", 0, "ass">>)

DebugLogPath(debugDir) == PathJoin(debugDir, <<"ffmpeg-debug", 0, "log">>)

\* path.basename(clip.filePath); a source file path is <<directory, base>>.
Basename(filePath) == filePath[2]

\* ------------------------------------------------------------------------
\* Inputs of exportVideo (ExportJobOptions)
\* ------------------------------------------------------------------------
Jobs == {"A", "B"}

SourceFiles == {<<"footage", "a.mp4">>, <<"broll", "b.mp4">>}

TimeVals == 0..MaxT

Clip(f, ss, se, ts, te) ==
  [filePath |-> f, sourceStart |-> ss, sourceEnd |-> se, timelineStart |-> ts, timelineEnd |-> te]

\* Clips of the data model: sourceEnd > sourceStart, timelineEnd > timelineStart.
TimedClips ==
  {Clip(<<"footage", "a.mp4">>, ss, se, ts, te) : ss \in TimeVals, se \in TimeVals, ts \in TimeVals, te \in TimeVals}

ValidTimedClips == {c \in TimedClips : c.sourceEnd > c.sourceStart /\ c.timelineEnd > c.timelineStart}

\* The export dialog hands the clips over sorted by timelineStart; the clips
\* of one video track do not overlap.
SortedByTimelineStart(cs) == \A k \in 1..(Len(cs) - 1) : cs[k].timelineEnd <= cs[k + 1].timelineStart

\* Back-to-back one-unit clips from any source files.
BackToBackClips ==
  UNION {{[k \in 1..n |-> Clip(fp[k], 0, 1, k - 1, k)] : fp \in [1..n -> SourceFiles]} : n \in 0..MaxClips}

\* Values a time field can hold when the options arrive: a number (finite,
\* NaN or an infinity), a string, or undefined.
JsNumber(n) == [type |-> "number", finite |-> TRUE, val |-> n, text |-> ""]

NaN == [type |-> "number", finite |-> FALSE, val |-> 0, text |-> ""]

Infinity == [type |-> "number", finite |-> FALSE, val |-> 1, text |-> ""]

JsString(t) == [type |-> "string", finite |-> FALSE, val |-> 0, text |-> t]

Undefined == [type |-> "undefined", finite |-> FALSE, val |-> 0, text |-> ""]

Caption(s, e, fam, b) ==
  [startTime |-> JsNumber(s), endTime |-> JsNumber(e), fontFamily |-> fam, bold |-> b]

Effect(ty, s, e) == [type |-> ty, timelineStart |-> s, timelineEnd |-> e]

OutputPath(base) == [dir |-> "out", base |-> base, ext |-> "mp4"]

Options(cl, caps, effs, out, dbg) ==
  [clips |-> cl, audioClips |-> <<>>, muteVideoAudio |-> TRUE, captions |-> caps,
   effects |-> effs, outputPath |-> out, debug |-> dbg]

NoOptions == Options(<<>>, <<>>, <<>>, OutputPath(""), FALSE)

\* An audio-track clip. Its times are in ticks of 0.1 ms, a hundredth of the
\* unit of the video clips.
TicksPerUnit == 100

TicksPerMs == 10

ExportAudioClip(f, ss, se, ts, te) ==
  [filePath |-> f, sourceStart |-> ss, sourceEnd |-> se, timelineStart |-> ts, timelineEnd |-> te]

WithAudio(o, acs, mute) == [o EXCEPT !.audioClips = acs, !.muteVideoAudio = mute]

\* One job at a time: any source files, debug on or off, with and without
\* captions (valid, invalid, with and without a font family).
FlowCaptions ==
  {<<>>, <<Caption(0, 1, "", FALSE)>>, <<Caption(1, 1, "Lato", TRUE)>>,
   <<Caption(1, 2, "Lato", TRUE), Caption(0, 1, "Inter", FALSE)>>}

FlowOptions ==
  {Options(cl, caps, <<>>, OutputPath("v1"), dbg) :
     cl \in BackToBackClips, caps \in FlowCaptions, dbg \in BOOLEAN}

\* Timelines with gaps, trimmed sources, captions and effects of any extent.
TimedCaptions == {<<>>} \cup {<<Caption(0, e, "", FALSE)>> : e \in TimeVals}

TimedEffects == {<<>>, <<Effect("duotone", 0, MaxT)>>}

DurOptions ==
  {Options(cl, caps, effs, OutputPath("v1"), FALSE) :
     cl \in {c \in SeqsUpTo(ValidTimedClips, MaxClips) : SortedByTimelineStart(c)},
     caps \in TimedCaptions, effs \in TimedEffects}

\* Two jobs of the same process.
ConcOptions ==
  {Options(cl, caps, <<>>, OutputPath(b), dbg) :
     cl \in {<<Clip(<<"footage", "a.mp4">>, 0, 1, 0, 1)>>},
     caps \in {<<>>, <<Caption(0, 1, "", FALSE)>>}, b \in {"v1", "v2"}, dbg \in BOOLEAN}

\* Jobs with an audio track: up to MaxAudioClips audio clips (starting at 0,
\* at 1.0004 s and at 1.0006 s, or trimmed), video audio muted or not, one or
\* two video clips, with and without a caption.
MaxAudioClips == 2

AudioTrackClips ==
  {ExportAudioClip(<<"music", "m.mp3">>, 0, 20000, ts, ts + 20000) : ts \in {0, 10004, 10006}}
  \cup {ExportAudioClip(<<"voice", "v.wav">>, 5000, 15000, 2500, 12500)}

AudioOptions ==
  {WithAudio(Options(cl, caps, <<>>, OutputPath("v1"), FALSE), acs, mute) :
     cl \in {<<Clip(<<"footage", "a.mp4">>, 0, 1, 0, 1)>>,
             <<Clip(<<"footage", "a.mp4">>, 0, 1, 0, 1), Clip(<<"broll", "b.mp4">>, 1, 2, 1, 2)>>},
     caps \in {<<>>, <<Caption(0, 1, "Lato", TRUE)>>},
     acs \in SeqsUpTo(AudioTrackClips, MaxAudioClips), mute \in BOOLEAN}

\* ------------------------------------------------------------------------
\* Pure parts of exportVideo
\* ------------------------------------------------------------------------
\* timelineVideoAudioClips: the clips as audio sources, unless muted.
TimelineVideoAudioClips(o) ==
  IF ~o.muteVideoAudio
  THEN [k \in DOMAIN o.clips |->
          ExportAudioClip(o.clips[k].filePath,
                          TicksPerUnit * o.clips[k].sourceStart, TicksPerUnit * o.clips[k].sourceEnd,
                          TicksPerUnit * o.clips[k].timelineStart, TicksPerUnit * o.clips[k].timelineEnd)]
  ELSE <<>>

AllTimedAudioClips(o) == TimelineVideoAudioClips(o) \o o.audioClips

\* const hasAnyTimedAudio = allTimedAudioClips.length > 0
HasAudioTrackClips(o) == Len(o.audioClips) > 0

HasAnyTimedAudio(o) == Len(AllTimedAudioClips(o)) > 0

\* '-ss', String(ac.sourceStart), '-t', String(dur), '-i', ac.filePath
AudioInput(ac) == [ss |-> ac.sourceStart, t |-> ac.sourceEnd - ac.sourceStart, i |-> ac.filePath]

\* const delayMs = Math.round(allTimedAudioClips[i].timelineStart * 1000)
DelayMsOfSourceStart(ac) == RoundDiv(ac.sourceStart, TicksPerMs)

DelayMs(ac) == RoundDiv(ac.timelineStart, TicksPerMs)

\* `[${i + 1}:a]adelay=${delayMs}|${delayMs}[a${i}]`
Adelay(acs, i) == [input |-> i + 1, stream |-> "a", left |-> DelayMs(acs[i + 1]), right |-> DelayMs(acs[i + 1]), label |-> i]

\* One label: anull; several: amix=inputs=n:normalize=0:dropout_transition=0.
MixStageNormalizing(labels) ==
  IF Len(labels) = 1
  THEN [filter |-> "anull", inputs |-> labels, options |-> <<>>, out |-> "aout"]
  ELSE [filter |-> "amix", inputs |-> labels,
        options |-> <<<<"inputs", Len(labels)>>, <<"dropout_transition", 0>>>>, out |-> "aout"]

MixStage(labels) ==
  IF Len(labels) = 1
  THEN [filter |-> "anull", inputs |-> labels, options |-> <<>>, out |-> "aout"]
  ELSE [filter |-> "amix", inputs |-> labels,
        options |-> <<<<"inputs", Len(labels)>>, <<"normalize", 0>>, <<"dropout_transition", 0>>>>,
        out |-> "aout"]

NoMixStage == [filter |-> "none", inputs |-> <<>>, options |-> <<>>, out |-> ""]

\* finalArgs: the concat file as input 0, one trimmed input per timed audio
\* source, the delay and mix stages of filter_complex and the two maps, or,
\* without any audio source, -vf and -an.
FinalArgs(o, concatPath) ==
  LET acs == AllTimedAudioClips(o)
      labels == [k \in DOMAIN acs |-> k - 1]
  IN IF HasAnyTimedAudio(o)
     THEN [built |-> TRUE, video |-> concatPath,
           audioInputs |-> [k \in DOMAIN acs |-> AudioInput(acs[k])],
           filterComplex |-> TRUE,
           delays |-> [k \in DOMAIN acs |-> Adelay(acs, k - 1)],
           mix |-> MixStage(labels),
           maps |-> <<"vout", "aout">>, an |-> FALSE]
     ELSE [built |-> TRUE, video |-> concatPath, audioInputs |-> <<>>, filterComplex |-> FALSE,
           delays |-> <<>>, mix |-> NoMixStage, maps |-> <<>>, an |-> TRUE]

NoArgs ==
  [built |-> FALSE, video |-> ConcatPath(TmpDir), audioInputs |-> <<>>, filterComplex |-> FALSE,
   delays |-> <<>>, mix |-> NoMixStage, maps |-> <<>>, an |-> FALSE]

\* if (clips.length === 0) throw new Error('No clips to export')
NoClipsUnchecked(o) == FALSE

NoClips(o) == Len(o.clips) = 0

\* Math.max(0.01, clip.sourceEnd - clip.sourceStart)
MinSegmentDuration == 1

SegmentDuration(clip) == Max2(MinSegmentDuration, clip.sourceEnd - clip.sourceStart)

\* Math.round(((i + 1) / clips.length) * 60)
SegProgressOfWhole(i, n) == RoundDiv((i + 1) * 100, n)

SegProgress(i, n) == RoundDiv((i + 1) * 60, n)

ConcatProgress == 70

FinalProgress == 100

\* The file the transcoder writes for segment i of job j.
SegmentFile(j, i, clip) ==
  [kind |-> "video", by |-> j, origin |-> <<[job |-> j, clip |-> i, file |-> clip.filePath]>>,
   dur |-> SegmentDuration(clip)]

\* segmentPaths.map((p) => `file '${p}'`).join('\n')
ConcatContentReversed(j, paths) ==
  [kind |-> "list", by |-> j, entries |-> [k \in DOMAIN paths |-> paths[Len(paths) + 1 - k]]]

ConcatContent(j, paths) == [kind |-> "list", by |-> j, entries |-> paths]

\* Errors the job rejects with.
JobError(k, i, f) == [kind |-> k, index |-> i, file |-> f]

NoError == JobError("none", -1, "")

NoClipsError == JobError("NoClips", -1, "")

\* `Failed to encode segment ${i} (${path.basename(clip.filePath)}): ...`
SegmentEncodeErrorOneBased(i, clip) == JobError("SegmentEncode", i + 1, Basename(clip.filePath))

SegmentEncodeError(i, clip) == JobError("SegmentEncode", i, Basename(clip.filePath))

\* `Segment ${i} was not created - FFmpeg produced no output for "..."`
SegmentMissingError(i, clip) == JobError("SegmentMissing", i, Basename(clip.filePath))

ConcatError == JobError("Concat", -1, "")

FinalEncodeError == JobError("FinalEncode", -1, "")

\* runFfmpeg: a failed execFile is logged and rethrown.
RunFfmpegSwallows(outcome) == FALSE

RunFfmpegThrows(outcome) == outcome = "fail"

\* fs.existsSync(segPath)
SegmentAssumed(f, segPath) == TRUE

SegmentCreated(f, segPath) == Exists(f, segPath)

\* Number(v) on the strings of the input sets: a decimal numeral gives its
\* value, the empty string 0, anything else NaN.
StringToNumber(t) ==
  CASE t = "" -> JsNumber(0)
    [] t = "0" -> JsNumber(0)
    [] t = "1" -> JsNumber(1)
    [] t = "2" -> JsNumber(2)
    [] t = "3" -> JsNumber(3)
    [] OTHER -> NaN

\* Number(v)
ToNumber(v) ==
  CASE v.type = "number" -> v
    [] v.type = "string" -> StringToNumber(v.text)
    [] OTHER -> NaN

\* Number.isFinite(v)
IsFinite(v) == v.type = "number" /\ v.finite

\* .map((c) => ({ ...c, startTime: Number(c.startTime), endTime: Number(c.endTime) }))
CoerceTimes(c) == [c EXCEPT !.startTime = ToNumber(@), !.endTime = ToNumber(@)]

\* Caption validation: finite times, endTime > startTime, stable sort by start.
IsValidCaption(c) ==
  IF IsFinite(c.startTime) /\ IsFinite(c.endTime) THEN c.endTime.val > c.startTime.val ELSE FALSE

\* Array.prototype.sort with (a, b) => a.startTime - b.startTime is stable:
\* a caption goes after the ones that start no later.
RECURSIVE InsertBeforeEqual(_, _)
InsertBeforeEqual(sorted, c) ==
  IF sorted = <<>> THEN <<c>>
  ELSE IF Head(sorted).startTime.val < c.startTime.val
       THEN <<Head(sorted)>> \o InsertBeforeEqual(Tail(sorted), c)
       ELSE <<c>> \o sorted

RECURSIVE InsertByStart(_, _)
InsertByStart(sorted, c) ==
  IF sorted = <<>> THEN <<c>>
  ELSE IF Head(sorted).startTime.val <= c.startTime.val
       THEN <<Head(sorted)>> \o InsertByStart(Tail(sorted), c)
       ELSE <<c>> \o sorted

RECURSIVE SortByStart(_)
SortByStart(s) ==
  IF s = <<>> THEN <<>>
  ELSE InsertByStart(SortByStart(SubSeq(s, 1, Len(s) - 1)), s[Len(s)])

ValidCaptions(caps) == SortByStart(SelectSeq([k \in DOMAIN caps |-> CoerceTimes(caps[k])], IsValidCaption))

\* `${cap.fontFamily || ''}:${cap.bold}`
FontKey(c) == <<c.fontFamily, c.bold>>

\* The font keys in the order of their first use (seenFontKeys).
RECURSIVE DistinctKeys(_, _)
DistinctKeys(caps, seen) ==
  IF caps = <<>> THEN <<>>
  ELSE IF FontKey(Head(caps)) \in seen
       THEN DistinctKeys(Tail(caps), seen)
       ELSE <<FontKey(Head(caps))>> \o DistinctKeys(Tail(caps), seen \cup {FontKey(Head(caps))})

FontKeys(o) == DistinctKeys(ValidCaptions(o.captions), {})

\* ------------------------------------------------------------------------
\* State of the export jobs
\* ------------------------------------------------------------------------
VARIABLES
  opts,          \* job -> the ExportJobOptions it was called with
  pc,            \* job -> "idle", the await it is suspended at, "done" or "failed"
  segIdx,        \* job -> loop index i of the segment loop
  segmentPaths,  \* job -> segmentPaths
  debugDir,      \* job -> debugDir, NoDir when undefined
  fontQueue,     \* job -> font keys not yet resolved
  progress,      \* job -> values passed to onProgress, in order
  invoked,       \* job -> transcoder invocations, in order, with their status
  error,         \* job -> the error the job rejected with
  result,        \* job -> the ExportResult it resolved with
  created,       \* job -> temporary artifacts written on its behalf
  unlinkIssued,  \* job -> paths it has called fs.unlink on
  fs,            \* the file system
  dirs,          \* directories created by mkdirSync
  pendingUnlink, \* fs.unlink calls not yet carried out
  clock,         \* Date.now()
  finalArgs      \* job -> arguments of the final encode, NoArgs before it is built

exportVars ==
  <<opts, pc, segIdx, segmentPaths, debugDir, fontQueue, progress, invoked, error, result,
    created, unlinkIssued, fs, dirs, pendingUnlink, clock, finalArgs>>

\* The temporary directory before the job: empty, or still holding a segment
\* of an earlier export that failed or was interrupted before its cleanup.
StaleSegment ==
  [kind |-> "video", by |-> "earlier",
   origin |-> <<[job |-> "earlier", clip |-> 0, file |-> <<"footage", "a.mp4">>]>>,
   dur |-> MinSegmentDuration]

StaleTmp == Write(EmptyFs, SegPath(TmpDir, 0), StaleSegment)

TmpStates == {EmptyFs, StaleTmp}

NoResult == [returned |-> FALSE, debugBundlePath |-> NoDir]

InitExport ==
  /\ opts = [j \in Jobs |-> NoOptions]
  /\ pc = [j \in Jobs |-> "idle"]
  /\ segIdx = [j \in Jobs |-> 0]
  /\ segmentPaths = [j \in Jobs |-> <<>>]
  /\ debugDir = [j \in Jobs |-> NoDir]
  /\ fontQueue = [j \in Jobs |-> <<>>]
  /\ progress = [j \in Jobs |-> <<>>]
  /\ invoked = [j \in Jobs |-> <<>>]
  /\ error = [j \in Jobs |-> NoError]
  /\ result = [j \in Jobs |-> NoResult]
  /\ created = [j \in Jobs |-> {}]
  /\ unlinkIssued = [j \in Jobs |-> {}]
  /\ dirs = {}
  /\ pendingUnlink = {}
  /\ clock = 0
  /\ finalArgs = [j \in Jobs |-> NoArgs]

\* State of the font resolver (fonts.ts)
VARIABLES
  fontDisk,   \* the font cache directory: path -> file
  rpc,        \* resolver -> "idle" or the await it is suspended at
  rreq,       \* resolver -> arguments of resolveFontPath
  rbold,      \* resolver -> bold argument of the running downloadGoogleFont
  rtier,      \* resolver -> position in the userAgents x cssApis loops
  rthrown,    \* resolver -> rejected downloadGoogleFont calls of this resolution
  rnet,       \* resolver -> this resolution has made a network request
  rlog,       \* resolver -> tiers its present or last resolution has tried, in order
  resolved    \* completed resolutions, in order

fontVars == <<fontDisk, rpc, rreq, rbold, rtier, rthrown, rnet, rlog, resolved>>

\* One pure part of exportVideo applied to an input on its own
VARIABLES
  calcArg,    \* the input
  calcRet     \* the results of the applications made so far, in order

calcVars == <<calcArg, calcRet>>

\* State of the project store of the editor (store/project.ts)
VARIABLES
  project,    \* the project being edited
  past,       \* projects to go back to, oldest first
  future,     \* projects to go forward to, nearest first
  lastOp      \* the store action applied last, with the project it was applied to

storeVars == <<project, past, future, lastOp>>

vars == <<exportVars, fontVars, calcVars, storeVars>>

\* const tmpDir = debugDir ?? fs.realpathSync(os.tmpdir())
TmpDirShared(dd) == TmpDir

TmpDirOf(dd) == IF dd = NoDir THEN TmpDir ELSE dd

LogEntry(label, part) == [label |-> label, part |-> part]

\* appendDebug: fs.appendFileSync(debugLogPath, ...) when debugLogPath is set.
AppendDebug(f, dd, entry) ==
  IF dd = NoDir THEN f
  ELSE LET p == DebugLogPath(dd)
           old == IF Exists(f, p) THEN f[p].entries ELSE <<>>
       IN Write(f, p, [kind |-> "log", entries |-> Append(old, entry)])

\* runFfmpeg before its await: the command is logged, the process is spawned.
Invocation(label, status) == [label |-> label, status |-> status]

Spawned(inv, label) == Append(inv, Invocation(label, "running"))

Settled(inv, status) == [inv EXCEPT ![Len(inv)].status = status]

\* runFfmpeg after its await: stderr is logged when the process wrote any
\* (the transcoder always prints its banner; a process that could not be
\* spawned leaves none), then the error.
LogOutcome(f, dd, label, outcome, ran) ==
  LET f1 == IF ran THEN AppendDebug(f, dd, LogEntry(label, "stderr")) ELSE f
  IN IF outcome = "fail" THEN AppendDebug(f1, dd, LogEntry(label, "error")) ELSE f1

SegLabel(i) == <<"segment", i>>

ConcatLabel == <<"concat", 0>>

FinalLabel == <<"final-export", 0>>

\* The transcoder's concat demuxer: every listed file in list order.
ConcatReadable(f, listPath) ==
  /\ Exists(f, listPath)
  /\ f[listPath].kind = "list"
  /\ \A k \in DOMAIN f[listPath].entries : Exists(f, f[listPath].entries[k])

ConcatFile(f, j, listPath) ==
  LET es == f[listPath].entries
  IN [kind |-> "video", by |-> j,
      origin |-> Flatten([k \in DOMAIN es |-> f[es[k]].origin]),
      dur |-> SumSeq([k \in DOMAIN es |-> f[es[k]].dur])]

\* The final encode filters the concatenated video; it adds or drops no frame.
FinalReadable(f, concatPath, assPath, needAss) ==
  /\ Exists(f, concatPath)
  /\ needAss => Exists(f, assPath)

FinalFile(f, j, concatPath) ==
  [kind |-> "video", by |-> j, origin |-> f[concatPath].origin, dur |-> f[concatPath].dur]

AssFile(j, caps) == [kind |-> "ass", by |-> j, captions |-> caps]

\* Temporary artifacts unlinked by the cleanup block.
CleanupPathsNoSubtitle(paths, tmp) == Range(paths) \cup {SegmentListPath(tmp), ConcatPath(tmp)}

CleanupPaths(paths, tmp) == Range(paths) \cup {SegmentListPath(tmp), ConcatPath(tmp), AssFilePath(tmp)}

\* ------------------------------------------------------------------------
\* exportVideo, one action per continuation
\* ------------------------------------------------------------------------
Fail(j, e) ==
  /\ pc' = [pc EXCEPT ![j] = "failed"]
  /\ error' = [error EXCEPT ![j] = e]

\* Call of exportVideo up to the first await (segment 0 is spawned).
ExportVideo(j, o) ==
  /\ pc[j] = "idle"
  /\ UNCHANGED <<fontVars, calcVars, storeVars>>
  /\ opts' = [opts EXCEPT ![j] = o]
  /\ IF NoClips(o)
     THEN /\ Fail(j, NoClipsError)
          /\ UNCHANGED <<segIdx, segmentPaths, debugDir, fontQueue, progress, invoked, result,
                         created, unlinkIssued, fs, dirs, pendingUnlink, clock, finalArgs>>
     ELSE \E now \in {clock, clock + 1} :
            LET dd == IF o.debug THEN DebugDirName(o.outputPath, now) ELSE NoDir
                tmp == TmpDirOf(dd)
            IN /\ clock' = IF o.debug THEN now ELSE clock
               /\ debugDir' = [debugDir EXCEPT ![j] = dd]
               /\ dirs' = IF o.debug THEN dirs \cup {dd} ELSE dirs
               /\ segIdx' = [segIdx EXCEPT ![j] = 0]
               /\ segmentPaths' = [segmentPaths EXCEPT ![j] = <<SegPath(tmp, 0)>>]
               /\ fs' = AppendDebug(fs, dd, LogEntry(SegLabel(0), "command"))
               /\ invoked' = [invoked EXCEPT ![j] = Spawned(@, SegLabel(0))]
               /\ pc' = [pc EXCEPT ![j] = "segment"]
               /\ UNCHANGED <<fontQueue, progress, error, result, created, unlinkIssued,
                              pendingUnlink, finalArgs>>

\* What the job learns of a segment run: the process failed, returned without
\* leaving the file, returned next to a file it did not write, or wrote it.
SegmentStatus(f, segPath, outcome) ==
  IF outcome = "fail" THEN "failed"
  ELSE IF ~Exists(f, segPath) THEN "missing"
  ELSE IF outcome = "nofile" THEN "stale"
  ELSE "ok"

ProcessStatus(outcome) == IF outcome = "ok" THEN "ok" ELSE "failed"

\* The transcoder run for segment i ends; the loop body continues up to the
\* next await (segment i+1 or concat).
SegmentDone(j) ==
  /\ UNCHANGED <<fontVars, calcVars, storeVars>>
  /\ pc[j] = "segment"
  /\ \E outcome \in {"ok", "nofile", "fail"}, ran \in BOOLEAN :
       LET o == opts[j]
           n == Len(o.clips)
           i == segIdx[j]
           clip == o.clips[i + 1]
           dd == debugDir[j]
           tmp == TmpDirOf(dd)
           segPath == segmentPaths[j][i + 1]
           f1 == IF outcome = "ok" THEN Write(fs, segPath, SegmentFile(j, i, clip)) ELSE fs
           f2 == LogOutcome(f1, dd, SegLabel(i), outcome, ran)
           made == IF outcome = "ok" THEN created[j] \cup {segPath} ELSE created[j]
           status == SegmentStatus(f2, segPath, outcome)
       IN /\ (outcome # "fail") => ran
          /\ IF RunFfmpegThrows(outcome)
             THEN /\ Fail(j, SegmentEncodeError(i, clip))
                  /\ invoked' = [invoked EXCEPT ![j] = Settled(@, status)]
                  /\ fs' = f2
                  /\ created' = [created EXCEPT ![j] = made]
                  /\ UNCHANGED <<segIdx, segmentPaths, progress>>
             ELSE IF ~SegmentCreated(f2, segPath)
             THEN /\ Fail(j, SegmentMissingError(i, clip))
                  /\ invoked' = [invoked EXCEPT ![j] = Settled(@, status)]
                  /\ fs' = f2
                  /\ created' = [created EXCEPT ![j] = made]
                  /\ UNCHANGED <<segIdx, segmentPaths, progress>>
             ELSE /\ progress' = [progress EXCEPT ![j] = Append(@, SegProgress(i, n))]
                  /\ UNCHANGED error
                  /\ IF i + 1 < n
                     THEN /\ segIdx' = [segIdx EXCEPT ![j] = i + 1]
                          /\ segmentPaths' = [segmentPaths EXCEPT ![j] = Append(@, SegPath(tmp, i + 1))]
                          /\ fs' = AppendDebug(f2, dd, LogEntry(SegLabel(i + 1), "command"))
                          /\ invoked' = [invoked EXCEPT ![j] = Spawned(Settled(@, status), SegLabel(i + 1))]
                          /\ created' = [created EXCEPT ![j] = made]
                          /\ UNCHANGED pc
                     ELSE /\ fs' = AppendDebug(
                                     Write(f2, SegmentListPath(tmp), ConcatContent(j, segmentPaths[j])),
                                     dd, LogEntry(ConcatLabel, "command"))
                          /\ invoked' = [invoked EXCEPT ![j] = Spawned(Settled(@, status), ConcatLabel)]
                          /\ created' = [created EXCEPT ![j] = made \cup {SegmentListPath(tmp)}]
                          /\ pc' = [pc EXCEPT ![j] = "concat"]
                          /\ UNCHANGED <<segIdx, segmentPaths>>
  /\ UNCHANGED <<opts, debugDir, fontQueue, result, unlinkIssued, dirs, pendingUnlink, clock,
                 finalArgs>>

\* Lines 376-553 up to the await of the final encode: the subtitle file is
\* written when there are valid captions, the final encode is spawned.
StartFinal(j, f, inv, made) ==
  LET o == opts[j]
      dd == debugDir[j]
      tmp == TmpDirOf(dd)
      caps == ValidCaptions(o.captions)
      f1 == IF Len(caps) > 0 THEN Write(f, AssFilePath(tmp), AssFile(j, caps)) ELSE f
  IN /\ fs' = AppendDebug(f1, dd, LogEntry(FinalLabel, "command"))
     /\ invoked' = [invoked EXCEPT ![j] = Spawned(inv, FinalLabel)]
     /\ created' = [created EXCEPT ![j] = IF Len(caps) > 0 THEN made \cup {AssFilePath(tmp)} ELSE made]
     /\ pc' = [pc EXCEPT ![j] = "final"]
     /\ finalArgs' = [finalArgs EXCEPT ![j] = FinalArgs(o, ConcatPath(tmp))]

\* The concat run ends; progress 70, captions are validated and the first
\* font is requested, or, without captions, the final encode is spawned.
ConcatDone(j) ==
  /\ UNCHANGED <<fontVars, calcVars, storeVars>>
  /\ pc[j] = "concat"
  /\ \E outcome \in {"ok", "fail"}, ran \in BOOLEAN :
       LET o == opts[j]
           dd == debugDir[j]
           tmp == TmpDirOf(dd)
           listPath == SegmentListPath(tmp)
           f1 == IF outcome = "ok" THEN Write(fs, ConcatPath(tmp), ConcatFile(fs, j, listPath)) ELSE fs
           f2 == LogOutcome(f1, dd, ConcatLabel, outcome, ran)
           made == IF outcome = "ok" THEN created[j] \cup {ConcatPath(tmp)} ELSE created[j]
           inv == Settled(invoked[j], ProcessStatus(outcome))
           keys == FontKeys(o)
       IN /\ (outcome = "ok") => (ran /\ ConcatReadable(fs, listPath))
          /\ IF RunFfmpegThrows(outcome)
             THEN /\ Fail(j, ConcatError)
                  /\ invoked' = [invoked EXCEPT ![j] = inv]
                  /\ fs' = f2
                  /\ created' = [created EXCEPT ![j] = made]
                  /\ UNCHANGED <<progress, fontQueue, finalArgs>>
             ELSE /\ progress' = [progress EXCEPT ![j] = Append(@, ConcatProgress)]
                  /\ UNCHANGED error
                  /\ IF keys # <<>>
                     THEN /\ fontQueue' = [fontQueue EXCEPT ![j] = Tail(keys)]
                          /\ pc' = [pc EXCEPT ![j] = "fonts"]
                          /\ invoked' = [invoked EXCEPT ![j] = inv]
                          /\ fs' = f2
                          /\ created' = [created EXCEPT ![j] = made]
                          /\ UNCHANGED finalArgs
                     ELSE /\ StartFinal(j, f2, inv, made)
                          /\ UNCHANGED fontQueue
  /\ UNCHANGED <<opts, segIdx, segmentPaths, debugDir, result, unlinkIssued, dirs,
                 pendingUnlink, clock>>

\* await resolveFontPath(...).catch(() => {}): a rejection is swallowed.
FontFailureAborts(settled) == FALSE

FontError == JobError("Font", -1, "")

\* One resolveFontPath promise settles; the next font is requested or the
\* final encode is spawned.
FontResolved(j) ==
  /\ UNCHANGED <<fontVars, calcVars, storeVars>>
  /\ pc[j] = "fonts"
  /\ \E settled \in {"resolved", "rejected"} :
       IF settled = "rejected" /\ FontFailureAborts(settled)
       THEN /\ Fail(j, FontError)
            /\ UNCHANGED <<fontQueue, fs, invoked, created, finalArgs>>
       ELSE /\ UNCHANGED error
            /\ IF fontQueue[j] # <<>>
               THEN /\ fontQueue' = [fontQueue EXCEPT ![j] = Tail(@)]
                    /\ UNCHANGED <<pc, fs, invoked, created, finalArgs>>
               ELSE /\ StartFinal(j, fs, invoked[j], created[j])
                    /\ UNCHANGED fontQueue
  /\ UNCHANGED <<opts, segIdx, segmentPaths, debugDir, progress, result, unlinkIssued, dirs,
                 pendingUnlink, clock>>

\* The final encode ends; progress 100, cleanup, summary, return.
FinalDone(j) ==
  /\ UNCHANGED <<fontVars, calcVars, storeVars>>
  /\ pc[j] = "final"
  /\ \E outcome \in {"ok", "fail"}, ran \in BOOLEAN :
       LET o == opts[j]
           dd == debugDir[j]
           tmp == TmpDirOf(dd)
           needAss == Len(ValidCaptions(o.captions)) > 0
           f1 == IF outcome = "ok"
                 THEN Write(fs, OutputFile(o.outputPath), FinalFile(fs, j, ConcatPath(tmp)))
                 ELSE fs
           f2 == LogOutcome(f1, dd, FinalLabel, outcome, ran)
           doomed == CleanupPaths(segmentPaths[j], tmp)
       IN /\ (outcome = "ok") => (ran /\ FinalReadable(fs, ConcatPath(tmp), AssFilePath(tmp), needAss))
          /\ invoked' = [invoked EXCEPT ![j] = Settled(@, ProcessStatus(outcome))]
          /\ IF RunFfmpegThrows(outcome)
             THEN /\ Fail(j, FinalEncodeError)
                  /\ fs' = f2
                  /\ UNCHANGED <<progress, unlinkIssued, pendingUnlink, result>>
             ELSE /\ progress' = [progress EXCEPT ![j] = Append(@, FinalProgress)]
                  /\ unlinkIssued' = [unlinkIssued EXCEPT ![j] = IF o.debug THEN @ ELSE @ \cup doomed]
                  /\ pendingUnlink' = IF o.debug THEN pendingUnlink ELSE pendingUnlink \cup doomed
                  /\ fs' = AppendDebug(f2, dd, LogEntry(FinalLabel, "summary"))
                  /\ result' = [result EXCEPT ![j] = [returned |-> TRUE, debugBundlePath |-> dd]]
                  /\ pc' = [pc EXCEPT ![j] = "done"]
                  /\ UNCHANGED error
  /\ UNCHANGED <<opts, segIdx, segmentPaths, debugDir, fontQueue, created, dirs, clock,
                 finalArgs>>

\* One fs.unlink(path, () => {}) is carried out; its error is ignored.
UnlinkDone(p) ==
  /\ p \in pendingUnlink
  /\ UNCHANGED <<fontVars, calcVars, storeVars>>
  /\ pendingUnlink' = pendingUnlink \ {p}
  /\ fs' = IF Exists(fs, p) THEN Remove(fs, p) ELSE fs
  /\ UNCHANGED <<opts, pc, segIdx, segmentPaths, debugDir, fontQueue, progress, invoked, error,
                 result, created, unlinkIssued, dirs, clock, finalArgs>>

\* ------------------------------------------------------------------------
\* Font resolver (fonts.ts)
\* ------------------------------------------------------------------------
MaxResolves == 2

Resolvers == {"export", "ipc"}

\* "" stands for an undefined or empty family name.
FontFamilies == {"Lato", "Inter", "Comic Neue"}

\* FONT_TTF_URLS: static file per family; bold is null for variable fonts.
NoUrl == <<"", "", "">>

FontTtfUrls(family) ==
  CASE family = "Lato" -> [regular |-> <<"GH", "lato", "Lato-Regular.ttf">>, bold |-> <<"GH", "lato", "Lato-Bold.ttf">>]
    [] family = "Inter" -> [regular |-> <<"GH", "inter", "Inter[opsz,wght].ttf">>, bold |-> NoUrl]
    [] OTHER -> [regular |-> NoUrl, bold |-> NoUrl]

\* const ghUrl = ghEntry ? (bold ? ghEntry.bold : ghEntry.regular) : null
GhUrl(family, bold) == IF bold THEN FontTtfUrls(family).bold ELSE FontTtfUrls(family).regular

\* familyName.replace(/\s+/g, '_').toLowerCase()
SafeName(family) ==
  CASE family = "Lato" -> "lato"
    [] family = "Inter" -> "inter"
    [] family = "Comic Neue" -> "comic_neue"
    [] OTHER -> ""

Weight(bold) == IF bold THEN 700 ELSE 400

\* path.join(fontsDir, `${safeName}_${weight}.ttf`)
FontPath(family, bold) == <<"fonts", SafeName(family), Weight(bold)>>

\* getSystemFontPath
SystemFontPath(bold) == <<"C:/Windows/Fonts", IF bold THEN "arialbd.ttf" ELSE "arial.ttf", 0>>

NoPath == <<"", "", 0>>

MinFontBytes == 10000

\* Sizes a cached or downloaded file can have: empty, an error page at the
\* threshold, a font just above it.
FileSizes == {0, MinFontBytes, MinFontBytes + 1}

\* Sizes of completely written files: at the threshold and above it.
WholeFileSizes == FileSizes \ {0}

\* Cache check: the file exists and is larger than the threshold.
CacheHitIgnored(disk, p) == FALSE

CacheHit(disk, p) == Exists(disk, p) /\ disk[p].size > MinFontBytes

\* if (size > 10000) after a download
DownloadValidAtThreshold(size) == size >= MinFontBytes

DownloadValid(size) == size > MinFontBytes

\* A file of the cache directory: its present size and the resolvers whose
\* write stream is still open on it.
FontFile(size) == [kind |-> "font", size |-> size, writers |-> {}]

\* fs.createWriteStream(filePath): the file is created, or truncated under
\* the streams already open on it.
CreateWriteStream(disk, p, r) ==
  Write(disk, p, [kind |-> "font", size |-> 0,
                  writers |-> (IF Exists(disk, p) THEN disk[p].writers ELSE {}) \cup {r}])

\* The stream of r is closed with sz bytes in the file; a stream whose file
\* was unlinked meanwhile leaves the path as it is.
Writing(disk, p, r) == Exists(disk, p) /\ r \in disk[p].writers

CloseStream(disk, p, r, sz) ==
  IF Writing(disk, p, r)
  THEN Write(disk, p, [kind |-> "font", size |-> sz, writers |-> disk[p].writers \ {r}])
  ELSE disk

\* for (const UA of userAgents) for (const cssUrl of cssApis)
UserAgents == <<"Android 2.2", "BlackBerry9700">>

CssApis == <<"css2", "css">>

FirstCss == [ua |-> 1, api |-> 1]

HasNextCss(t) == t.api < Len(CssApis) \/ t.ua < Len(UserAgents)

NextCssApiOuter(t) ==
  IF t.ua < Len(UserAgents) THEN [ua |-> t.ua + 1, api |-> t.api] ELSE [ua |-> 1, api |-> t.api + 1]

NextCss(t) == IF t.api < Len(CssApis) THEN [ua |-> t.ua, api |-> t.api + 1] ELSE [ua |-> t.ua + 1, api |-> 1]

\* One tier tried for one weight: the cache, the static file, or one client
\* identity with one endpoint of the CSS API.
Attempt(tier, b, t) == [tier |-> tier, bold |-> b, ua |-> t.ua, api |-> t.api]

\* resolveFontPath's handlers of a rejected downloadGoogleFont: the first
\* rejection of a bold request retries the regular weight, any other one
\* falls back to the system font.
AfterThrowUncaught(reqBold, nthThrow) ==
  IF nthThrow = 1 THEN (IF reqBold THEN "retryRegular" ELSE "system") ELSE "throw"

AfterThrow(reqBold, nthThrow) == IF nthThrow = 1 /\ reqBold THEN "retryRegular" ELSE "system"

NoRequest == [family |-> "", bold |-> FALSE]

InitFontIdle ==
  /\ rpc = [r \in Resolvers |-> "idle"]
  /\ rreq = [r \in Resolvers |-> NoRequest]
  /\ rbold = [r \in Resolvers |-> FALSE]
  /\ rtier = [r \in Resolvers |-> FirstCss]
  /\ rthrown = [r \in Resolvers |-> 0]
  /\ rnet = [r \in Resolvers |-> FALSE]
  /\ rlog = [r \in Resolvers |-> <<>>]
  /\ resolved = <<>>

\* The cache directory holds files of earlier sessions, of any size.
CacheStates(family) ==
  {d \in UNION {[ps -> {FontFile(sz) : sz \in WholeFileSizes}] : ps \in SUBSET {FontPath(family, b) : b \in BOOLEAN}} : TRUE}

InitFont ==
  /\ fontDisk \in UNION {CacheStates(family) : family \in FontFamilies}
  /\ InitFontIdle

\* The resolution ends: resolveFontPath returns a path or rejects. The entry
\* notes whether the returned cache file is missing or still being written.
Return(r, status, path, disk, net, thrown, log) ==
  /\ resolved' = Append(resolved, [family |-> rreq'[r].family, bold |-> rreq'[r].bold, status |-> status,
                                   path |-> path, net |-> net, thrown |-> thrown,
                                   by |-> r,
                                   partial |-> path[1] = "fonts"
                                                 /\ (~Exists(disk, path) \/ disk[path].writers # {})])
  /\ fontDisk' = disk
  /\ rpc' = [rpc EXCEPT ![r] = "idle"]
  /\ rbold' = [rbold EXCEPT ![r] = FALSE]
  /\ rtier' = [rtier EXCEPT ![r] = FirstCss]
  /\ rthrown' = [rthrown EXCEPT ![r] = 0]
  /\ rnet' = [rnet EXCEPT ![r] = FALSE]
  /\ rlog' = [rlog EXCEPT ![r] = log]

\* The resolution suspends at a network request.
Await(r, at, tier, b, disk, thrown, log) ==
  /\ rpc' = [rpc EXCEPT ![r] = at]
  /\ rtier' = [rtier EXCEPT ![r] = tier]
  /\ rbold' = [rbold EXCEPT ![r] = b]
  /\ fontDisk' = disk
  /\ rthrown' = [rthrown EXCEPT ![r] = thrown]
  /\ rnet' = [rnet EXCEPT ![r] = TRUE]
  /\ rlog' = [rlog EXCEPT ![r] = log]
  /\ UNCHANGED resolved

\* downloadGoogleFont up to its first await: cache check, then the static
\* file when the table has one, else the CSS API.
Download(r, family, b, disk, thrown, net, log) ==
  LET p == FontPath(family, b)
      hit == CacheHit(disk, p)
      disk1 == IF Exists(disk, p) /\ ~hit THEN Remove(disk, p) ELSE disk
      log1 == Append(log, Attempt("cache", b, FirstCss))
  IN IF hit THEN Return(r, "returned", p, disk, net, thrown, log1)
     ELSE IF GhUrl(family, b) # NoUrl
     THEN Await(r, "github", FirstCss, b, CreateWriteStream(disk1, p, r), thrown,
                Append(log1, Attempt("github", b, FirstCss)))
     ELSE Await(r, "css", FirstCss, b, disk1, thrown, Append(log1, Attempt("css", b, FirstCss)))

\* downloadGoogleFont throws; resolveFontPath catches.
Throw(r, disk) ==
  LET n == rthrown[r] + 1
      what == AfterThrow(rreq[r].bold, n)
  IN IF what = "retryRegular" THEN Download(r, rreq[r].family, FALSE, disk, n, TRUE, rlog[r])
     ELSE IF what = "system" THEN Return(r, "returned", SystemFontPath(rreq[r].bold), disk, TRUE, n, rlog[r])
     ELSE Return(r, "thrown", NoPath, disk, TRUE, n, rlog[r])

\* End of one pass of the CSS loops.
NextTier(r, disk) ==
  IF HasNextCss(rtier[r])
  THEN Await(r, "css", NextCss(rtier[r]), rbold[r], disk, rthrown[r],
             Append(rlog[r], Attempt("css", rbold[r], NextCss(rtier[r]))))
  ELSE Throw(r, disk)

\* Call of resolveFontPath.
ResolveFontPath(r, family, bold) ==
  /\ rpc[r] = "idle"
  /\ UNCHANGED <<exportVars, calcVars, storeVars>>
  /\ Len(resolved) < MaxResolves
  /\ rreq' = [rreq EXCEPT ![r] = [family |-> family, bold |-> bold]]
  /\ IF family = ""
     THEN Return(r, "returned", SystemFontPath(bold), fontDisk, FALSE, 0, <<>>)
     ELSE Download(r, family, bold, fontDisk, 0, FALSE, <<>>)

\* res.pipe(file): a chunk of a running download is written to the file.
Piped(r) ==
  /\ rpc[r] \in {"github", "cssfile"}
  /\ UNCHANGED <<exportVars, calcVars, storeVars>>
  /\ LET p == FontPath(rreq[r].family, rbold[r])
     IN /\ Writing(fontDisk, p, r)
        /\ \E sz \in FileSizes :
             /\ sz > fontDisk[p].size
             /\ fontDisk' = Write(fontDisk, p, [fontDisk[p] EXCEPT !.size = sz])
  /\ UNCHANGED <<rpc, rreq, rbold, rtier, rthrown, rnet, rlog, resolved>>

\* downloadBinaryFile: the stream is closed with the data received, or the
\* request fails and the file is unlinked.
DownloadOutcomes == {[ok |-> FALSE, size |-> 0]} \cup {[ok |-> TRUE, size |-> sz] : sz \in WholeFileSizes}

\* A stream cannot end with fewer bytes than it has already written.
CanEndWith(disk, p, r, out) == (out.ok /\ Writing(disk, p, r)) => out.size >= disk[p].size

\* The static-file download settles; fs.statSync of a path that was unlinked
\* meanwhile throws into the catch of the tier.
GithubDone(r) ==
  /\ rpc[r] = "github"
  /\ UNCHANGED <<rreq, exportVars, calcVars, storeVars>>
  /\ \E out \in DownloadOutcomes :
       LET p == FontPath(rreq[r].family, rbold[r])
           closed == CloseStream(fontDisk, p, r, out.size)
           css == Append(rlog[r], Attempt("css", rbold[r], FirstCss))
       IN /\ CanEndWith(fontDisk, p, r, out)
          /\ IF ~out.ok THEN Await(r, "css", FirstCss, rbold[r], Remove(fontDisk, p), rthrown[r], css)
             ELSE IF ~Exists(closed, p) THEN Await(r, "css", FirstCss, rbold[r], closed, rthrown[r], css)
             ELSE IF DownloadValid(closed[p].size) THEN Return(r, "returned", p, closed, TRUE, rthrown[r], rlog[r])
             ELSE Await(r, "css", FirstCss, rbold[r], Remove(closed, p), rthrown[r], css)

\* fetchText of one CSS API URL settles.
CssFetched(r) ==
  /\ rpc[r] = "css"
  /\ UNCHANGED <<rreq, exportVars, calcVars, storeVars>>
  /\ \E out \in {"ttf", "nottf", "error"} :
       IF out = "ttf"
       THEN Await(r, "cssfile", rtier[r], rbold[r],
                  CreateWriteStream(fontDisk, FontPath(rreq[r].family, rbold[r]), r), rthrown[r], rlog[r])
       ELSE NextTier(r, fontDisk)

\* The download of the file named by the CSS settles.
CssFileDone(r) ==
  /\ rpc[r] = "cssfile"
  /\ UNCHANGED <<rreq, exportVars, calcVars, storeVars>>
  /\ \E out \in DownloadOutcomes :
       LET p == FontPath(rreq[r].family, rbold[r])
           closed == CloseStream(fontDisk, p, r, out.size)
       IN /\ CanEndWith(fontDisk, p, r, out)
          /\ IF ~out.ok THEN NextTier(r, Remove(fontDisk, p))
             ELSE IF ~Exists(closed, p) THEN NextTier(r, closed)
             ELSE IF DownloadValid(closed[p].size) THEN Return(r, "returned", p, closed, TRUE, rthrown[r], rlog[r])
             ELSE NextTier(r, Remove(closed, p))

\* ------------------------------------------------------------------------
\* Specifications
\* ------------------------------------------------------------------------
InitFontUnused == fontDisk = EmptyFs /\ InitFontIdle

InitCalcUnused == calcArg = <<>> /\ calcRet = <<>>

\* ------------------------------------------------------------------------
\* Project store: captions and history (times in units of 0.01 s)

StoreCaption(startTime, endTime) == [startTime |-> startTime, endTime |-> endTime]

Project(captions) == [captions |-> captions]

\* defaultProject()
DefaultProject == Project(<<>>)

NoProject == Project(<<StoreCaption(-1, -1)>>)

\* The store action applied last: the project it found, the array it handed
\* to deoverlapArr, whether it changed the store, and for a redo that follows
\* an undo the project that undo found.
Op(name, pre, input, acted, undone) ==
  [op |-> name, pre |-> pre, input |-> input, acted |-> acted, undone |-> undone]

NoOp == Op("none", NoProject, <<>>, FALSE, NoProject)

\* [...captions].sort((a, b) => a.startTime - b.startTime), a stable sort
RECURSIVE InsertCaption(_, _)
InsertCaption(sorted, c) ==
  IF sorted = <<>> THEN <<c>>
  ELSE IF Head(sorted).startTime <= c.startTime
       THEN <<Head(sorted)>> \o InsertCaption(Tail(sorted), c)
       ELSE <<c>> \o sorted

RECURSIVE SortCaptions(_)
SortCaptions(s) ==
  IF s = <<>> THEN <<>>
  ELSE InsertCaption(SortCaptions(SubSeq(s, 1, Len(s) - 1)), s[Len(s)])

\* The loop of deoverlapArr from index i on: the caption before i ends where
\* caption i starts when it would run into it.
RECURSIVE TrimFrom(_, _)
TrimFrom(sorted, i) ==
  IF i > Len(sorted) THEN sorted
  ELSE IF sorted[i].startTime < sorted[i - 1].endTime
       THEN TrimFrom([sorted EXCEPT ![i - 1] = StoreCaption(sorted[i - 1].startTime, sorted[i].startTime)], i + 1)
       ELSE TrimFrom(sorted, i + 1)

DeoverlapArr(captions) == TrimFrom(SortCaptions(captions), 2)

\* s.past.slice(-49)
HistoryKeep == 49

\* slice(-n) and slice(0, n)
LastN(s, n) == SubSeq(s, Max2(1, Len(s) - n + 1), Len(s))

FirstN(s, n) == SubSeq(s, 1, IF Len(s) < n THEN Len(s) ELSE n)

PastWithUncut(p) == Append(past, p)

PastWith(p) == Append(LastN(past, HistoryKeep), p)

\* withHistory: the project found goes on the past stack, the future stack
\* is emptied, the new project takes its place.
WithHistory(newProject, name, input) ==
  /\ past' = PastWith(project)
  /\ future' = <<>>
  /\ project' = newProject
  /\ lastOp' = Op(name, project, input, TRUE, NoProject)

AddCaptions(captions) ==
  /\ WithHistory(Project(DeoverlapArr(project.captions \o captions)), "addCaptions", project.captions \o captions)
  /\ UNCHANGED <<exportVars, fontVars, calcVars>>

DeoverlapCaptions ==
  /\ WithHistory(Project(DeoverlapArr(project.captions)), "deoverlapCaptions", project.captions)
  /\ UNCHANGED <<exportVars, fontVars, calcVars>>

PushUndo ==
  /\ past' = PastWith(project)
  /\ future' = <<>>
  /\ lastOp' = Op("pushUndo", project, <<>>, TRUE, NoProject)
  /\ UNCHANGED <<project, exportVars, fontVars, calcVars>>

Undo ==
  /\ IF Len(past) = 0
     THEN /\ lastOp' = Op("undo", project, <<>>, FALSE, NoProject)
          /\ UNCHANGED <<project, past, future>>
     ELSE /\ project' = past[Len(past)]
          /\ past' = SubSeq(past, 1, Len(past) - 1)
          /\ future' = <<project>> \o FirstN(future, HistoryKeep)
          /\ lastOp' = Op("undo", project, <<>>, TRUE, NoProject)
  /\ UNCHANGED <<exportVars, fontVars, calcVars>>

Redo ==
  /\ IF Len(future) = 0
     THEN /\ lastOp' = Op("redo", project, <<>>, FALSE, NoProject)
          /\ UNCHANGED <<project, past, future>>
     ELSE /\ project' = future[1]
          /\ future' = Tail(future)
          /\ past' = PastWith(project)
          /\ lastOp' = Op("redo", project, <<>>, TRUE,
                          IF lastOp.op = "undo" /\ lastOp.acted THEN lastOp.pre ELSE NoProject)
  /\ UNCHANGED <<exportVars, fontVars, calcVars>>

InitStoreUnused == project = DefaultProject /\ past = <<>> /\ future = <<>> /\ lastOp = NoOp

\* One export job.
Init == InitExport /\ fs \in TmpStates /\ InitFontUnused /\ InitCalcUnused /\ InitStoreUnused

Next ==
  \/ \E o \in FlowOptions : ExportVideo("A", o)
  \/ SegmentDone("A")
  \/ ConcatDone("A")
  \/ FontResolved("A")
  \/ FinalDone("A")
  \/ \E p \in pendingUnlink : UnlinkDone(p)

Spec == Init /\ [][Next]_vars

\* One export job over timelines with gaps and trimmed sources.
NextDur ==
  \/ \E o \in DurOptions : ExportVideo("A", o)
  \/ SegmentDone("A")
  \/ ConcatDone("A")
  \/ FontResolved("A")
  \/ FinalDone("A")
  \/ \E p \in pendingUnlink : UnlinkDone(p)

SpecDur == Init /\ [][NextDur]_vars

\* One export job with an audio track.
NextAudio ==
  \/ \E o \in AudioOptions : ExportVideo("A", o)
  \/ SegmentDone("A")
  \/ ConcatDone("A")
  \/ FontResolved("A")
  \/ FinalDone("A")
  \/ \E p \in pendingUnlink : UnlinkDone(p)

SpecAudio == Init /\ [][NextAudio]_vars

\* Two export jobs interleaved at their awaits.
NextConc ==
  \/ \E j \in Jobs, o \in ConcOptions : ExportVideo(j, o)
  \/ \E j \in Jobs : SegmentDone(j)
  \/ \E j \in Jobs : ConcatDone(j)
  \/ \E j \in Jobs : FontResolved(j)
  \/ \E j \in Jobs : FinalDone(j)
  \/ \E p \in pendingUnlink : UnlinkDone(p)

SpecConc == Init /\ [][NextConc]_vars

\* Resolutions of one caller, one after the other.
NextFont ==
  \/ \E family \in FontFamilies \cup {""}, bold \in BOOLEAN : ResolveFontPath("export", family, bold)
  \/ GithubDone("export")
  \/ CssFetched("export")
  \/ CssFileDone("export")

InitFontSpec == InitExport /\ fs = EmptyFs /\ InitFont /\ InitCalcUnused /\ InitStoreUnused

SpecFont == InitFontSpec /\ [][NextFont]_vars

\* Resolutions of one (family, weight) by the export job and by the
\* fonts:download handler, interleaved at their awaits.
NextFontConc ==
  \/ \E r \in Resolvers : ResolveFontPath(r, "Lato", FALSE)
  \/ \E r \in Resolvers : GithubDone(r)
  \/ \E r \in Resolvers : CssFetched(r)
  \/ \E r \in Resolvers : CssFileDone(r)
  \/ \E r \in Resolvers : Piped(r)

InitFontConc == InitExport /\ fs = EmptyFs /\ fontDisk = EmptyFs /\ InitFontIdle /\ InitCalcUnused /\ InitStoreUnused

SpecFontConc == InitFontConc /\ [][NextFontConc]_vars

\* ------------------------------------------------------------------------
\* Caption validation on its own
\* ------------------------------------------------------------------------
MaxCaptions == 3

\* Start and end times as the renderer may send them: valid ranges as numbers
\* and as numerals, an empty and a reversed range, times that are not finite.
RawTimes ==
  {<<JsNumber(0), JsNumber(1)>>, <<JsNumber(1), JsNumber(2)>>, <<JsNumber(0), JsNumber(2)>>,
   <<JsString("1"), JsString("2")>>, <<JsNumber(1), JsNumber(1)>>, <<JsNumber(2), JsNumber(1)>>,
   <<NaN, JsNumber(1)>>, <<JsNumber(0), Infinity>>, <<JsNumber(0), JsString("x")>>,
   <<Undefined, JsNumber(2)>>}

\* Caption k of a list carries its position in the list as font family.
PositionTag(k) == CASE k = 1 -> "Lato" [] k = 2 -> "Inter" [] k = 3 -> "Comic Neue" [] OTHER -> ""

RawCaptionLists ==
  UNION {{[k \in 1..n |-> [startTime |-> ts[k][1], endTime |-> ts[k][2], fontFamily |-> PositionTag(k), bold |-> FALSE]] :
            ts \in [1..n -> RawTimes]} : n \in 0..MaxCaptions}

InitCaptions ==
  /\ InitExport /\ fs = EmptyFs /\ InitFontUnused /\ InitStoreUnused
  /\ calcArg \in RawCaptionLists
  /\ calcRet = <<>>

\* validCaptions of the captions handed to exportVideo.
ValidateCaptions ==
  /\ calcRet = <<>>
  /\ calcRet' = <<ValidCaptions(calcArg)>>
  /\ UNCHANGED <<exportVars, fontVars, storeVars, calcArg>>

\* validCaptions of a list that went through the validation before.
RevalidateCaptions ==
  /\ Len(calcRet) = 1
  /\ calcRet' = Append(calcRet, ValidCaptions(calcRet[1]))
  /\ UNCHANGED <<exportVars, fontVars, storeVars, calcArg>>

NextCaptions == ValidateCaptions \/ RevalidateCaptions

SpecCaptions == InitCaptions /\ [][NextCaptions]_vars

\* ------------------------------------------------------------------------
\* Pixelate effects (pixelizeFilters).  Effect times are in ticks of 10
\* microseconds, the bounds of the enable windows in units of 0.0001 s as
\* toFixed(4) prints them.
\* ------------------------------------------------------------------------
\* const STEPS = 16
STEPS == 16

\* PixelateParams: startBlockSize and endBlockSize are 2..64.
MinBlockSize == 2

MaxBlockSize == 64

PixelateEffect(ts, te, sb, eb) ==
  [type |-> "pixelate", timelineStart |-> ts, timelineEnd |-> te, startBlockSize |-> sb,
   endBlockSize |-> eb, cellSize |-> 0]

\* (num / den ticks).toFixed(4): the nearest multiple of 0.0001 s; where the
\* value lies halfway the double that holds it falls on either side.
ToFixed4(num, den, tieUp) ==
  LET unit == den * 10
      q == num \div unit
      r == num % unit
  IN IF 2 * r > unit \/ (2 * r = unit /\ tieUp) THEN q + 1 ELSE q

\* Bound i of the slices: e.timelineStart + i * stepDur, stepDur = dur / STEPS.
SliceBound(e, i, tieUp) ==
  ToFixed4(STEPS * e.timelineStart + i * (e.timelineEnd - e.timelineStart), STEPS, tieUp)

\* progress = (i + 0.5) / STEPS
\* N = Math.max(2, Math.round(startBlockSize + (endBlockSize - startBlockSize) * progress))
BlockSizeAtSliceStart(e, i) ==
  Max2(2, RoundDiv(2 * STEPS * e.startBlockSize + (e.endBlockSize - e.startBlockSize) * (2 * i), 2 * STEPS))

BlockSize(e, i) ==
  Max2(2, RoundDiv(2 * STEPS * e.startBlockSize + (e.endBlockSize - e.startBlockSize) * (2 * i + 1), 2 * STEPS))

\* enable=between(t, t0, t1): both bounds belong to the window.
SliceWindowHalfOpen(e, i, tieUp) == [t0 |-> SliceBound(e, i, tieUp), t1 |-> SliceBound(e, i + 1, tieUp) - 1]

SliceWindow(e, i, tieUp) == [t0 |-> SliceBound(e, i, tieUp), t1 |-> SliceBound(e, i + 1, tieUp)]

\* `pixelize=width=${N}:height=${N}:enable=between(t\,${t0}\,${t1})`
\* A primitive of the chain: its filter, the block size of a pixelize filter
\* (0 for the other filters, whose own options are left out), its time gate
\* and, as a note that is not part of the string, the effect type it was
\* emitted for.
PixelizeFilter(e, i, tieUp) ==
  [filter |-> "pixelize", width |-> BlockSize(e, i), height |-> BlockSize(e, i),
   enable |-> SliceWindow(e, i, tieUp), of |-> "pixelate"]

IsPixelate(e) == e.type = "pixelate" /\ e.timelineEnd > e.timelineStart

PixelizeFilters(effects, tieUp) ==
  LET sel == SelectSeq(effects, IsPixelate)
  IN Flatten([k \in DOMAIN sel |-> [i \in 1..STEPS |-> PixelizeFilter(sel[k], i - 1, tieUp)]])

\* Time ranges in ticks of 10 microseconds. Short ranges: 0.1 s (the shortest
\* effect the trim handles of the timeline leave), 0.4 ms with a fifth
\* decimal, one tick.
ShortRanges == {<<200000, 210000>>, <<200005, 200045>>, <<0, 1>>}

\* 2 s - 5 s, the same with a fifth decimal, an empty and a reversed range.
ScenarioRanges == {<<200000, 500000>>, <<200004, 500006>>, <<300000, 300000>>, <<500000, 200000>>}

\* The sizes of a dropped effect (4 to 48) and the two extremes of the range.
ScenarioSizes == {<<4, 48>>, <<2, 64>>, <<64, 2>>}

PixelateInputs ==
  {[effect |-> PixelateEffect(r[1], r[2], sb, eb), tieUp |-> up] :
     r \in ShortRanges, sb \in MinBlockSize..MaxBlockSize, eb \in MinBlockSize..MaxBlockSize,
     up \in BOOLEAN}
  \cup
  {[effect |-> PixelateEffect(r[1], r[2], z[1], z[2]), tieUp |-> up] :
     r \in ScenarioRanges, z \in ScenarioSizes, up \in BOOLEAN}

InitPixelate ==
  /\ InitExport /\ fs = EmptyFs /\ InitFontUnused /\ InitStoreUnused
  /\ calcArg \in PixelateInputs
  /\ calcRet = <<>>

\* pixelizeFilters of the effects handed to exportVideo.
BuildPixelizeFilters ==
  /\ calcRet = <<>>
  /\ calcRet' = <<PixelizeFilters(<<calcArg.effect>>, calcArg.tieUp)>>
  /\ UNCHANGED <<exportVars, fontVars, storeVars, calcArg>>

NextPixelate == BuildPixelizeFilters

SpecPixelate == InitPixelate /\ [][NextPixelate]_vars

\* ------------------------------------------------------------------------
\* The video filter chain (allVfFilters). Effect times are ticks of 10
\* microseconds, gate bounds are units of 0.0001 s.
\* ------------------------------------------------------------------------
\* An effect of another type; of its parameters only cellSize is kept.
TypedEffect(ty, ts, te, cell) ==
  [type |-> ty, timelineStart |-> ts, timelineEnd |-> te, startBlockSize |-> 0,
   endBlockSize |-> 0, cellSize |-> cell]

\* .filter(e => e.type === ty && e.timelineEnd > e.timelineStart)
OfType(effects, ty) == SelectSeq(effects, LAMBDA e : e.type = ty)

LastingOfType(effects, ty) ==
  SelectSeq(effects, LAMBDA e : e.type = ty /\ e.timelineEnd > e.timelineStart)

\* enable=between(t, TS, TE), TS = timelineStart.toFixed(4), TE = timelineEnd.toFixed(4)
EffectWindow(e, tieUp) ==
  [t0 |-> ToFixed4(e.timelineStart, 1, tieUp), t1 |-> ToFixed4(e.timelineEnd, 1, tieUp)]

Gated(name, e, tieUp) ==
  [filter |-> name, width |-> 0, height |-> 0, enable |-> EffectWindow(e, tieUp), of |-> e.type]

\* hue=s=0, curves=...
DuotoneFilters(effects, tieUp) ==
  LET sel == LastingOfType(effects, "duotone")
  IN Flatten([k \in DOMAIN sel |-> <<Gated("hue", sel[k], tieUp), Gated("curves", sel[k], tieUp)>>])

\* const cell = Math.max(4, Math.min(20, Math.round(e.cellSize)))
MinCell == 4

MaxCell == 20

Cell(e) == Max2(MinCell, IF e.cellSize < MaxCell THEN e.cellSize ELSE MaxCell)

\* pixelize=width=cell:height=cell, hue=s=0, eq=contrast=...
AsciiFilters(effects, tieUp) ==
  LET sel == LastingOfType(effects, "ascii")
  IN Flatten([k \in DOMAIN sel |->
       <<[Gated("pixelize", sel[k], tieUp) EXCEPT !.width = Cell(sel[k]), !.height = Cell(sel[k])],
         Gated("hue", sel[k], tieUp), Gated("eq", sel[k], tieUp)>>])

\* noise=..., lutrgb=...
DitherFilters(effects, tieUp) ==
  LET sel == LastingOfType(effects, "dither")
  IN Flatten([k \in DOMAIN sel |-> <<Gated("noise", sel[k], tieUp), Gated("lutrgb", sel[k], tieUp)>>])

\* rgbashift=...
ChromaticFilters(effects, tieUp) ==
  LET sel == LastingOfType(effects, "chromatic_aberration")
  IN [k \in DOMAIN sel |-> Gated("rgbashift", sel[k], tieUp)]

NoGate == [t0 |-> -1, t1 |-> -1]

\* ass='...':fontsdir='...'
AssFilter == [filter |-> "ass", width |-> 0, height |-> 0, enable |-> NoGate, of |-> "captions"]

AllVfFiltersAsciiFirst(effects, hasAss, tieUp) ==
  PixelizeFilters(effects, tieUp) \o AsciiFilters(effects, tieUp) \o DitherFilters(effects, tieUp)
    \o DuotoneFilters(effects, tieUp) \o ChromaticFilters(effects, tieUp)
    \o (IF hasAss THEN <<AssFilter>> ELSE <<>>)

AllVfFilters(effects, hasAss, tieUp) ==
  PixelizeFilters(effects, tieUp) \o DitherFilters(effects, tieUp) \o DuotoneFilters(effects, tieUp)
    \o AsciiFilters(effects, tieUp) \o ChromaticFilters(effects, tieUp)
    \o (IF hasAss THEN <<AssFilter>> ELSE <<>>)

MaxEffects == 2

EffectTypes == {"pixelate", "duotone", "ascii", "dither", "chromatic_aberration"}

\* 2 s - 5 s, the same with a fifth decimal, and an empty range.
EffectRanges == {<<200000, 500000>>, <<200004, 500006>>, <<300000, 300000>>}

EffectChoices ==
  {IF ty = "pixelate" THEN PixelateEffect(r[1], r[2], 4, 48)
   ELSE TypedEffect(ty, r[1], r[2], IF ty = "ascii" THEN 8 ELSE 0) :
     ty \in EffectTypes, r \in EffectRanges}

ChainInputs ==
  {[effects |-> effs, hasAss |-> ha, tieUp |-> up] :
     effs \in SeqsUpTo(EffectChoices, MaxEffects), ha \in BOOLEAN, up \in BOOLEAN}

InitChain ==
  /\ InitExport /\ fs = EmptyFs /\ InitFontUnused /\ InitStoreUnused
  /\ calcArg \in ChainInputs
  /\ calcRet = <<>>

\* allVfFilters of the effects handed to exportVideo.
BuildVfFilters ==
  /\ calcRet = <<>>
  /\ calcRet' = <<AllVfFilters(calcArg.effects, calcArg.hasAss, calcArg.tieUp)>>
  /\ UNCHANGED <<exportVars, fontVars, storeVars, calcArg>>

NextChain == BuildVfFilters

SpecChain == InitChain /\ [][NextChain]_vars

\* ------------------------------------------------------------------------
\* Subtitle document (buildASSFile). A text is a sequence of characters,
\* caption times are milliseconds, sweep durations are centiseconds.
\* ------------------------------------------------------------------------
Backslash == "\\"

Newline == "\n"

\* text.replace(/ch/g, rep)
ReplaceChar(text, ch, rep) ==
  Flatten([k \in DOMAIN text |-> IF text[k] = ch THEN rep ELSE <<text[k]>>])

\* text.replace(/\{/g, '\\{').replace(/\}/g, '\\}').replace(/\n/g, '\\N')
EscapeASSText(text) ==
  ReplaceChar(ReplaceChar(ReplaceChar(text, "{", <<Backslash, "{">>), "}", <<Backslash, "}">>),
              Newline, <<Backslash, "N">>)

\* toASSTime: h:mm:ss.cc, every field floored. cs = floor((s % 1) * 100) is
\* a binary floating-point product: for a time that is a whole number of
\* centiseconds and not a whole second it can fall just below that number
\* (1.15 s gives 14).
ToASSTime(ms, below) ==
  LET cs == (ms % 1000) \div 10
  IN [h |-> ms \div 3600000, m |-> (ms % 3600000) \div 60000, sec |-> (ms % 60000) \div 1000,
      cs |-> IF below /\ ms % 10 = 0 /\ cs > 0 THEN cs - 1 ELSE cs]

\* A colour is [r, g, b]; NoColor is an unset colour field.
NoColor == [r |-> -1, g |-> -1, b |-> -1]

White == [r |-> 255, g |-> 255, b |-> 255]

Yellow == [r |-> 255, g |-> 228, b |-> 0]

\* toASSColor(color, 1.0): &HAABBGGRR with alpha 00.
ToASSColor(color) == [aa |-> 0, bb |-> color.b, gg |-> color.g, rr |-> color.r]

ExportCaptionWord(word, s, e) == [word |-> word, startTime |-> s, endTime |-> e]

WordedCaption(text, s, e, color, highlightColor, words) ==
  [text |-> text, startTime |-> s, endTime |-> e, color |-> color,
   highlightColor |-> highlightColor, words |-> words]

\* Style Cap_i: primary = cap.color || 'white'; secondary = highlightColor
\* when set, primary otherwise.
CaptionStyle(cap) ==
  LET primary == ToASSColor(IF cap.color = NoColor THEN White ELSE cap.color)
  IN [primary |-> primary,
      secondary |-> IF cap.highlightColor # NoColor THEN ToASSColor(cap.highlightColor) ELSE primary]

\* Math.max(1, Math.round((w.endTime - w.startTime) * 100))
KfDuration(w) == Max2(1, RoundDiv(w.endTime - w.startTime, 10))

IsKaraoke(cap) == Len(cap.words) > 0 /\ cap.highlightColor # NoColor

\* The text of the dialogue event: one {\kf<cs>}word part per word, or the
\* caption text.
EventParts(cap) ==
  IF IsKaraoke(cap)
  THEN [k \in DOMAIN cap.words |-> [kf |-> KfDuration(cap.words[k]), text |-> EscapeASSText(cap.words[k].word)]]
  ELSE <<[kf |-> 0, text |-> EscapeASSText(cap.text)]>>

DialogueEvent(cap, i, below) ==
  [start |-> ToASSTime(cap.startTime, below), end |-> ToASSTime(cap.endTime, below),
   style |-> i, karaoke |-> IsKaraoke(cap), parts |-> EventParts(cap)]

BuildASSFile(captions, below) ==
  [styles |-> [i \in DOMAIN captions |-> CaptionStyle(captions[i])],
   events |-> [i \in DOMAIN captions |-> DialogueEvent(captions[i], i, below)]]

\* The subtitle renderer. An event is shown from its start to its end; in a
\* karaoke event part k is drawn in SecondaryColour until the sweeps of the
\* parts before it are over, then swept to PrimaryColour over its own kf
\* centiseconds, and drawn in PrimaryColour afterwards.
ASSTimeMs(t) == (((t.h * 60 + t.m) * 60 + t.sec) * 100 + t.cs) * 10

SweepEnd(ev, k) == 10 * SumSeq([j \in 1..k |-> ev.parts[j].kf])

Shown(ev, t) == ASSTimeMs(ev.start) <= t /\ t < ASSTimeMs(ev.end)

DrawnColours(doc, i, k, t) ==
  LET ev == doc.events[i]
      st == doc.styles[ev.style]
      rel == t - ASSTimeMs(ev.start)
  IN IF ~Shown(ev, t) THEN {}
     ELSE IF ~ev.karaoke \/ rel >= SweepEnd(ev, k) THEN {st.primary}
     ELSE IF rel <= SweepEnd(ev, k - 1) THEN {st.secondary}
     ELSE {st.primary, st.secondary}

MaxWords == 3

WordDurations == {500, 250, 16, 4}

CaptionStarts == {1000, 1150}

WordText(k) == IF k = 2 THEN <<"{", "b", "}">> ELSE <<"a">>

RECURSIVE ConsecutiveWords(_, _, _)
ConsecutiveWords(start, durs, k) ==
  IF durs = <<>> THEN <<>>
  ELSE <<ExportCaptionWord(WordText(k), start, start + Head(durs))>>
         \o ConsecutiveWords(start + Head(durs), Tail(durs), k + 1)

\* Captions of 0..MaxWords consecutive words; a caption without words lasts
\* half a second.
KaraokeInputs ==
  {[caption |-> WordedCaption(<<"a", Newline, "b">>, s, s + (IF durs = <<>> THEN 500 ELSE SumSeq(durs)),
                              White, hl, ConsecutiveWords(s, durs, 1)),
    below |-> bl] :
     s \in CaptionStarts, durs \in UNION {[1..n -> WordDurations] : n \in 0..MaxWords},
     hl \in {Yellow, NoColor}, bl \in BOOLEAN}

InitKaraoke ==
  /\ InitExport /\ fs = EmptyFs /\ InitFontUnused /\ InitStoreUnused
  /\ calcArg \in KaraokeInputs
  /\ calcRet = <<>>

\* buildASSFile of the one caption handed to exportVideo.
WriteASSFile ==
  /\ calcRet = <<>>
  /\ calcRet' = <<BuildASSFile(<<calcArg.caption>>, calcArg.below)>>
  /\ UNCHANGED <<exportVars, fontVars, storeVars, calcArg>>

NextKaraoke == WriteASSFile

SpecKaraoke == InitKaraoke /\ [][NextKaraoke]_vars

\* ------------------------------------------------------------------------
\* Caption text escaping: escapeText (drawtext overlay) and escapeASSText
\* (subtitle document), each with the reading of its target language that
\* its replacements name.
\* ------------------------------------------------------------------------
Apostrophe == "'"

RightSingleQuote == "U+2019"

DoubleQuote == "\""

\* escapeText: apostrophe to U+2019, then backslash doubled, then a
\* backslash before " : , [ ], then percent doubled.
EscapeText(t) ==
  LET t1 == ReplaceChar(t, Apostrophe, <<RightSingleQuote>>)
      t2 == ReplaceChar(t1, Backslash, <<Backslash, Backslash>>)
      t3 == ReplaceChar(t2, DoubleQuote, <<Backslash, DoubleQuote>>)
      t4 == ReplaceChar(t3, ":", <<Backslash, ":">>)
      t5 == ReplaceChar(t4, ",", <<Backslash, ",">>)
      t6 == ReplaceChar(t5, "[", <<Backslash, "[">>)
      t7 == ReplaceChar(t6, "]", <<Backslash, "]">>)
  IN ReplaceChar(t7, "%", <<"%", "%">>)

\* The overlay text as its parser reads it: a backslash makes the next
\* character literal, %% is a percent sign.
RECURSIVE UnescapeOverlay(_)
UnescapeOverlay(s) ==
  IF s = <<>> THEN <<>>
  ELSE IF Len(s) >= 2 /\ s[1] = Backslash THEN <<s[2]>> \o UnescapeOverlay(SubSeq(s, 3, Len(s)))
  ELSE IF Len(s) >= 2 /\ s[1] = "%" /\ s[2] = "%" THEN <<"%">> \o UnescapeOverlay(SubSeq(s, 3, Len(s)))
  ELSE <<s[1]>> \o UnescapeOverlay(Tail(s))

\* The event text as the subtitle renderer reads it: \{ and \} are braces,
\* \N is a line break, any other character stands for itself.
RECURSIVE UnescapeASS(_)
UnescapeASS(s) ==
  IF s = <<>> THEN <<>>
  ELSE IF Len(s) >= 2 /\ s[1] = Backslash /\ s[2] \in {"{", "}"}
       THEN <<s[2]>> \o UnescapeASS(SubSeq(s, 3, Len(s)))
  ELSE IF Len(s) >= 2 /\ s[1] = Backslash /\ s[2] = "N"
       THEN <<Newline>> \o UnescapeASS(SubSeq(s, 3, Len(s)))
  ELSE <<s[1]>> \o UnescapeASS(Tail(s))

MaxTextLen == 3

TextChars ==
  {"a", "N", Apostrophe, DoubleQuote, ":", ",", "[", "]", "%", Backslash, "{", "}", Newline}

CaptionTexts == SeqsUpTo(TextChars, MaxTextLen)

InitEscape ==
  /\ InitExport /\ fs = EmptyFs /\ InitFontUnused /\ InitStoreUnused
  /\ calcArg \in CaptionTexts
  /\ calcRet = <<>>

\* The caption text is escaped for the overlay and for the subtitle event.
EscapeCaptionText ==
  /\ calcRet = <<>>
  /\ calcRet' = <<[overlay |-> EscapeText(calcArg), ass |-> EscapeASSText(calcArg)]>>
  /\ UNCHANGED <<exportVars, fontVars, storeVars, calcArg>>

NextEscape == EscapeCaptionText

SpecEscape == InitEscape /\ [][NextEscape]_vars

\* ------------------------------------------------------------------------
\* Export dialog: computeExportCaptions (times in units of 0.01 s)

\* adjStart + 0.01
MinWordWindow == 1

\* ctx.measureText of a word and of a space, in units of the word width
WordWidth == 1

SpaceWidth == 1

TimedWord(start, end) == [start |-> start, end |-> end]

WordedLineCaption(startTime, endTime, words) == [startTime |-> startTime, endTime |-> endTime, words |-> words]

\* cap.words.map with prevEnd carried from word to word, without the clamp
\* to the previous end
RECURSIVE AdjustedFromUnclamped(_, _, _)
AdjustedFromUnclamped(words, wordOffset, prevEnd) ==
  IF words = <<>> THEN <<>>
  ELSE LET adjStart == Head(words).start + wordOffset
           adjEnd == Max2(adjStart + MinWordWindow, Head(words).end + wordOffset)
       IN <<TimedWord(adjStart, adjEnd)>> \o AdjustedFromUnclamped(Tail(words), wordOffset, adjEnd)

\* cap.words.map with prevEnd carried from word to word
RECURSIVE AdjustedFrom(_, _, _)
AdjustedFrom(words, wordOffset, prevEnd) ==
  IF words = <<>> THEN <<>>
  ELSE LET adjStart == Max2(prevEnd, Head(words).start + wordOffset)
           adjEnd == Max2(adjStart + MinWordWindow, Head(words).end + wordOffset)
       IN <<TimedWord(adjStart, adjEnd)>> \o AdjustedFrom(Tail(words), wordOffset, adjEnd)

AdjustedWords(cap) ==
  LET wordOffset == cap.startTime - cap.words[1].start
  IN AdjustedFrom(cap.words, wordOffset, cap.words[1].start + wordOffset)

\* The loop over adjustedWords that breaks the words into visual lines.
RECURSIVE BreakLines(_, _, _, _)
BreakLines(words, line, lineW, maxLineW) ==
  IF words = <<>> THEN (IF Len(line) > 0 THEN <<line>> ELSE <<>>)
  ELSE LET ww == WordWidth
           needed == IF Len(line) > 0 THEN SpaceWidth + ww ELSE ww
       IN IF Len(line) > 0 /\ lineW + needed > maxLineW
          THEN <<line>> \o BreakLines(Tail(words), <<Head(words)>>, ww, maxLineW)
          ELSE BreakLines(Tail(words), Append(line, Head(words)), lineW + needed, maxLineW)

LineCaptionData(l) == [startTime |-> l[1].start, endTime |-> l[Len(l)].end, wordOffsets |-> l]

\* computeExportCaptions for one caption
ExportCaptionLines(cap, maxLineW) ==
  IF Len(cap.words) = 0
  THEN <<[startTime |-> cap.startTime, endTime |-> cap.endTime, wordOffsets |-> <<>>]>>
  ELSE LET lines == BreakLines(AdjustedWords(cap), <<>>, 0, maxLineW)
       IN [i \in 1..Len(lines) |-> LineCaptionData(lines[i])]

\* Word timestamps as transcription leaves them: any pair of times, also
\* regressing and overlapping ones.
WordTimes == 0..2

WordLists == SeqsUpTo({TimedWord(a, b) : a, b \in WordTimes}, MaxWords)

\* Widths of the export frame: one, two or three words to the line.
LineWidths == {2, 4, 6}

ExportCaptionInputs ==
  {[cap |-> WordedLineCaption(t, t + 1, ws), maxLineW |-> w] : t \in WordTimes, ws \in WordLists, w \in LineWidths}

InitExportCaptions ==
  /\ InitExport /\ fs = EmptyFs /\ InitFontUnused /\ InitStoreUnused
  /\ calcArg \in ExportCaptionInputs
  /\ calcRet = <<>>

ComputeExportCaptions ==
  /\ calcRet = <<>>
  /\ calcRet' = ExportCaptionLines(calcArg.cap, calcArg.maxLineW)
  /\ UNCHANGED <<exportVars, fontVars, storeVars, calcArg>>

NextExportCaptions == ComputeExportCaptions

SpecExportCaptions == InitExportCaptions /\ [][NextExportCaptions]_vars

\* ------------------------------------------------------------------------
\* Project store: caption edits

MaxStoreCaptions == 3

MaxEdits == 2

CaptionTimes == 0..3

\* Captions as the editor creates them: endTime > startTime.
StoreCaptions == {c \in [startTime : CaptionTimes, endTime : CaptionTimes] : c.endTime > c.startTime}

\* A project is loaded with captions in any order, overlapping or not.
InitStore ==
  /\ InitExport /\ fs = EmptyFs /\ InitFontUnused /\ InitCalcUnused
  /\ project \in {Project(cs) : cs \in SeqsUpTo(StoreCaptions, MaxStoreCaptions - 1)}
  /\ past = <<>>
  /\ future = <<>>
  /\ lastOp = NoOp

NextStore ==
  \/ \E c \in StoreCaptions :
       Len(project.captions) < MaxStoreCaptions /\ Len(past) < MaxEdits /\ AddCaptions(<<c>>)
  \/ Len(past) < MaxEdits /\ DeoverlapCaptions
  \/ Undo
  \/ Redo

SpecStore == InitStore /\ [][NextStore]_vars

\* ------------------------------------------------------------------------
\* Project store: history

MaxRevisions == 52

MaxPushDepth == 2

InitHistory == InitExport /\ fs = EmptyFs /\ InitFontUnused /\ InitCalcUnused /\ InitStoreUnused

\* One caption after the other is added to a new project; any edit can be
\* undone and redone, and pushUndo is called with the first project current.
NextHistory ==
  \/ Len(project.captions) < MaxRevisions
       /\ AddCaptions(<<StoreCaption(Len(project.captions), Len(project.captions) + 1)>>)
  \/ past = <<>> /\ Len(future) < MaxPushDepth /\ PushUndo
  \/ Undo
  \/ Redo

SpecHistory == InitHistory /\ [][NextHistory]_vars

\* ------------------------------------------------------------------------
\* Properties
\* ------------------------------------------------------------------------
Finished(j) == pc[j] = "done"

Failed(j) == pc[j] = "failed"

Called(j) == pc[j] # "idle"

NonDecreasing(s) == \A k \in 1..(Len(s) - 1) : s[k] <= s[k + 1]

\* max(timelineEnd) over the clips, captions and effects of a job.
MaxTimelineEnd(o) ==
  MaxSeq([k \in DOMAIN o.clips |-> o.clips[k].timelineEnd]
         \o [k \in DOMAIN o.captions |-> o.captions[k].endTime.val]
         \o [k \in DOMAIN o.effects |-> o.effects[k].timelineEnd])

\* C1: when a job with at least one clip has finished, the duration of the
\* file at its output path equals the maximum timelineEnd over its clips,
\* captions and effects.
C1_OutputDurationIsMaxTimelineEnd ==
  \A j \in Jobs :
    (Finished(j) /\ Exists(fs, OutputFile(opts[j].outputPath)))
      => fs[OutputFile(opts[j].outputPath)].dur = MaxTimelineEnd(opts[j])

\* C2: when a job has failed and debug is off, a deletion has been issued for
\* every temporary artifact written for it so far.
C2_FailedJobCleansUp ==
  \A j \in Jobs : (Failed(j) /\ ~opts[j].debug) => created[j] \subseteq unlinkIssued[j]

\* C3: two jobs never write or delete the same temporary path, and every
\* video file holds only material of the job that wrote it.
C3_PerJobUniqueNames ==
  /\ \A j \in Jobs, k \in Jobs :
       j # k => (created[j] \cup unlinkIssued[j]) \cap (created[k] \cup unlinkIssued[k]) = {}
  /\ \A p \in DOMAIN fs :
       fs[p].kind = "video" => \A e \in DOMAIN fs[p].origin : fs[p].origin[e].job = fs[p].by

\* Every download tier of a resolution failed: the requested weight threw
\* and, for a bold request, the regular retry threw too.
AllTiersFailed(res) == res.thrown = IF res.bold THEN 2 ELSE 1

\* C4: every completed resolveFontPath call returned (it did not throw) a
\* path: the system font of the requested weight when no family was given or
\* every tier failed, the cache file of the family otherwise.
C4_ResolveNeverThrows ==
  \A k \in DOMAIN resolved :
    LET res == resolved[k]
    IN /\ res.status = "returned"
       /\ res.path # NoPath
       /\ (res.family = "" \/ AllTiersFailed(res)) => res.path = SystemFontPath(res.bold)
       /\ ~(res.family = "" \/ AllTiersFailed(res))
            => res.path \in {FontPath(res.family, res.bold), FontPath(res.family, FALSE)}

C4_Witness ==
  \E k \in DOMAIN resolved :
    /\ resolved[k].bold /\ resolved[k].thrown = 2
    /\ resolved[k].status = "returned" /\ resolved[k].path = SystemFontPath(TRUE)

SamePairTwice == Len(resolved) >= 2 /\ resolved[1].family = resolved[2].family /\ resolved[1].bold = resolved[2].bold

FirstServedRequestedWeight ==
  resolved[1].family = "" \/ resolved[1].path = FontPath(resolved[1].family, resolved[1].bold)

C6_ProgressMonotone ==
  /\ \A j \in Jobs :
       /\ \A k \in DOMAIN progress[j] : progress[j][k] \in 0..100
       /\ NonDecreasing(progress[j])
  /\ \A n \in 1..MaxProgressClips :
       LET all == [k \in 1..(n + 2) |->
                    IF k <= n THEN SegProgress(k - 1, n) ELSE IF k = n + 1 THEN ConcatProgress ELSE FinalProgress]
       IN NonDecreasing(all) /\ \A k \in DOMAIN all : all[k] \in 0..100

C6_Witness ==
  /\ Finished("A") /\ Len(opts["A"].clips) >= 2
  /\ Len(progress["A"]) = Len(opts["A"].clips) + 2

\* The order the transcoder is to be invoked in for n clips.
ExpectedLabel(n, k) == IF k <= n THEN SegLabel(k - 1) ELSE IF k = n + 1 THEN ConcatLabel ELSE FinalLabel

\* The process returned without error and, for a segment, its file was found.
Passed(status) == status \in {"ok", "stale"}

\* C7: the invocations of one job are a prefix of segment 0..N-1, concat,
\* final encode, each at most once; every invocation but the last has
\* succeeded (a segment with its file verified); 70 is reported only after
\* concat succeeded and 100 only after the final encode succeeded.
C7_SequentialInvocations ==
  \A j \in Jobs :
    LET inv == invoked[j]
        n == Len(opts[j].clips)
    IN /\ Len(inv) <= n + 2
       /\ n = 0 => inv = <<>>
       /\ \A k \in DOMAIN inv : inv[k].label = ExpectedLabel(n, k)
       /\ \A k \in 1..(Len(inv) - 1) : Passed(inv[k].status)
       /\ ConcatProgress \in Range(progress[j]) => (Len(inv) >= n + 1 /\ inv[n + 1].status = "ok")
       /\ FinalProgress \in Range(progress[j]) => (Len(inv) = n + 2 /\ inv[n + 2].status = "ok")

C7_Witness ==
  /\ Finished("A") /\ Len(opts["A"].clips) >= 2
  /\ Len(invoked["A"]) = Len(opts["A"].clips) + 2
  /\ FinalProgress \in Range(progress["A"])

\* C8: a job called with no clips has failed with the no-clips error and has
\* invoked no process, created no directory or file, and reported no progress.
C8_NoClipsBeforeStart ==
  \A j \in Jobs :
    (Called(j) /\ Len(opts[j].clips) = 0)
      => /\ Failed(j) /\ error[j] = NoClipsError
         /\ invoked[j] = <<>> /\ progress[j] = <<>>
         /\ created[j] = {} /\ dirs = {} /\ fs \in TmpStates
         /\ ~result[j].returned

C8_Witness == Failed("A") /\ error["A"] = NoClipsError /\ opts["A"].debug

IsSegment(inv) == inv.label[1] = "segment"

\* Nothing after invocation k of job j: no progress for its segment, no later
\* invocation.
AbortedAt(j, k) == Failed(j) /\ Len(invoked[j]) = k /\ Len(progress[j]) = k - 1

\* C9: when the transcoder failed on segment i, the job has failed with an
\* error naming i and the source file of clip i, without progress for
\* segment i and without any later invocation.
C9_SegmentFailureAborts ==
  \A j \in Jobs : \A k \in DOMAIN invoked[j] :
    (IsSegment(invoked[j][k]) /\ invoked[j][k].status = "failed")
      => /\ AbortedAt(j, k)
         /\ error[j] = JobError("SegmentEncode", k - 1, Basename(opts[j].clips[k].filePath))

C9_Witness ==
  /\ Len(opts["A"].clips) >= 2
  /\ Len(invoked["A"]) = 2 /\ invoked["A"][2].status = "failed"
  /\ opts["A"].clips[1].filePath # opts["A"].clips[2].filePath
  /\ error["A"].kind = "SegmentEncode"

\* C10: when the transcoder returned for segment i but its file does not
\* exist, the job has failed with the segment-missing error, without
\* progress for segment i and without any later invocation.
C10_MissingSegmentAborts ==
  \A j \in Jobs : \A k \in DOMAIN invoked[j] :
    (IsSegment(invoked[j][k]) /\ invoked[j][k].status = "missing")
      => /\ AbortedAt(j, k)
         /\ error[j] = JobError("SegmentMissing", k - 1, Basename(opts[j].clips[k].filePath))

C10_Witness ==
  /\ Len(opts["A"].clips) >= 2
  /\ Len(invoked["A"]) = 2 /\ invoked["A"][2].status = "missing"
  /\ error["A"].kind = "SegmentMissing" /\ Len(progress["A"]) = 1

\* The temporary artifacts of a job run with debug off.
TempArtifacts(o) ==
  {SegPath(TmpDir, i) : i \in 0..(Len(o.clips) - 1)}
    \cup {SegmentListPath(TmpDir), ConcatPath(TmpDir)}
    \cup (IF ValidCaptions(o.captions) # <<>> THEN {AssFilePath(TmpDir)} ELSE {})

FinalEncodeCompleted(j) ==
  /\ invoked[j] # <<>>
  /\ invoked[j][Len(invoked[j])] = Invocation(FinalLabel, "ok")

\* C11: once a job with debug off has finished, a deletion has been issued
\* for each of its segment files, the concat list, the concat output and the
\* subtitle file; no deletion is issued, and every artifact written so far
\* still exists, until the final encode has completed.
C11_CleanupAfterSuccess ==
  \A j \in Jobs :
    /\ (Finished(j) /\ ~opts[j].debug)
         => (TempArtifacts(opts[j]) \cup created[j]) \subseteq unlinkIssued[j]
    /\ unlinkIssued[j] # {} => (Finished(j) /\ FinalEncodeCompleted(j))
    /\ ~Finished(j) => \A p \in created[j] : Exists(fs, p)

C11_Witness ==
  /\ Finished("A") /\ ~opts["A"].debug /\ Len(opts["A"].clips) = 2
  /\ AssFilePath(TmpDir) \in created["A"] \cap unlinkIssued["A"]
  /\ pendingUnlink = {}
  /\ \A p \in created["A"] : ~Exists(fs, p)

\* The log of a debug job, empty while the file does not exist.
DebugLog(j) ==
  IF Exists(fs, DebugLogPath(debugDir[j])) THEN fs[DebugLogPath(debugDir[j])].entries ELSE <<>>

IsCommand(entry) == entry.part = "command"

\* Invocation k of job j is logged: its command, and once it has settled its
\* output (or, when it failed, its error) after the command.
InvocationLogged(log, inv) ==
  \E c \in DOMAIN log :
    /\ log[c] = LogEntry(inv.label, "command")
    /\ \A d \in DOMAIN log : (log[d].label = inv.label /\ d # c) => (d > c /\ ~IsCommand(log[d]))
    /\ inv.status \in {"ok", "stale", "missing"} => \E d \in DOMAIN log : log[d] = LogEntry(inv.label, "stderr")
    /\ inv.status = "failed" => \E d \in DOMAIN log : log[d] = LogEntry(inv.label, "error")

\* C12: a job returns a debugBundlePath exactly when debug was set; a debug
\* job writes every artifact inside that directory and deletes none, and the
\* log there holds the command of every invocation, in order, written when
\* the invocation starts and followed by its output or error; a job with
\* debug off writes no log and creates no directory.
C12_DebugBundle ==
  \A j \in Jobs :
    /\ result[j].returned
         => /\ (result[j].debugBundlePath # NoDir) <=> opts[j].debug
            /\ result[j].debugBundlePath = debugDir[j]
    /\ (opts[j].debug /\ invoked[j] # <<>>)
         => /\ debugDir[j] # NoDir /\ debugDir[j] \in dirs
            /\ \A p \in created[j] : p[1] = debugDir[j] /\ Exists(fs, p)
            /\ unlinkIssued[j] = {} /\ pendingUnlink = {}
            /\ LET log == DebugLog(j)
                   commands == SelectSeq(log, IsCommand)
               IN /\ [k \in DOMAIN commands |-> commands[k].label]
                       = [k \in DOMAIN invoked[j] |-> invoked[j][k].label]
                  /\ \A k \in DOMAIN invoked[j] : InvocationLogged(log, invoked[j][k])
    /\ (Called(j) /\ ~opts[j].debug)
         => /\ debugDir[j] = NoDir /\ dirs = {}
            /\ \A p \in DOMAIN fs : fs[p].kind # "log"

C12_Witness ==
  /\ Finished("A") /\ opts["A"].debug /\ Len(opts["A"].clips) = 2
  /\ result["A"].debugBundlePath = debugDir["A"] /\ debugDir["A"] # NoDir
  /\ AssFilePath(debugDir["A"]) \in created["A"]
  /\ Len(SelectSeq(DebugLog("A"), IsCommand)) = 4

\* C13: the concat list of a job names its segment files, one per clip, in
\* the order of the clips; the concatenated file holds, at position i, the
\* material of clip i wherever segment i was encoded by this job, and when
\* all were, it lasts the sum of the segment durations.
C13_ConcatListInClipOrder ==
  \A j \in Jobs :
    LET tmp == TmpDirOf(debugDir[j])
        o == opts[j]
        n == Len(o.clips)
        list == SegmentListPath(tmp)
        concat == ConcatPath(tmp)
    IN /\ (list \in created[j] /\ Exists(fs, list))
            => fs[list].entries = [k \in 1..n |-> SegPath(tmp, k - 1)]
       /\ (concat \in created[j] /\ Exists(fs, concat))
            => /\ Len(fs[concat].origin) = n
               /\ \A k \in 1..n :
                    invoked[j][k].status = "ok"
                      => fs[concat].origin[k] = [job |-> j, clip |-> k - 1, file |-> o.clips[k].filePath]
               /\ (\A k \in 1..n : invoked[j][k].status = "ok")
                    => fs[concat].dur = SumSeq([k \in 1..n |-> SegmentDuration(o.clips[k])])

C13_Witness ==
  /\ Len(opts["A"].clips) = 2
  /\ opts["A"].clips[1].filePath # opts["A"].clips[2].filePath
  /\ ConcatPath(TmpDir) \in created["A"] /\ Exists(fs, ConcatPath(TmpDir))
  /\ fs[ConcatPath(TmpDir)].dur = 2
  /\ \A k \in 1..2 : invoked["A"][k].status = "ok"

\* Both times are finite numbers and the caption ends after it starts.
HasValidTimes(c) ==
  /\ c.startTime.type = "number" /\ c.startTime.finite
  /\ c.endTime.type = "number" /\ c.endTime.finite
  /\ c.endTime.val > c.startTime.val

AscendingStarts(caps) == \A k \in 1..(Len(caps) - 1) : caps[k].startTime.val <= caps[k + 1].startTime.val

\* C14: the validated list holds exactly the captions whose coerced times are
\* finite with endTime > startTime, each once, in ascending start order; a
\* list that is already valid and sorted comes back unchanged, captions with
\* equal start times in their order; validating the result again returns it.
C14_CaptionValidationIdempotent ==
  /\ Len(calcRet) >= 1
       => LET out == calcRet[1]
              valid == {k \in DOMAIN calcArg : HasValidTimes(CoerceTimes(calcArg[k]))}
          IN /\ Len(out) = Cardinality(valid)
             /\ Range(out) = {CoerceTimes(calcArg[k]) : k \in valid}
             /\ AscendingStarts(out)
             /\ ((\A k \in DOMAIN calcArg : HasValidTimes(calcArg[k])) /\ AscendingStarts(calcArg))
                  => out = calcArg
  /\ Len(calcRet) = 2 => calcRet[2] = calcRet[1]

C14_Witness ==
  /\ Len(calcRet) = 2 /\ Len(calcArg) = 3 /\ Len(calcRet[1]) = 3
  /\ calcRet[1] = calcArg
  /\ calcArg[1].startTime = calcArg[2].startTime

\* The pixelate effect of the input lasts and its filters have been built.
PixelateBuilt == calcRet # <<>> /\ calcArg.effect.timelineEnd > calcArg.effect.timelineStart

\* Sub-filters enabled at the midpoint (timelineStart + timelineEnd) / 2.
EnabledAtMidpoint(e, filters) ==
  {i \in DOMAIN filters :
     /\ 20 * filters[i].enable.t0 <= e.timelineStart + e.timelineEnd
     /\ e.timelineStart + e.timelineEnd <= 20 * filters[i].enable.t1}

\* |N - (startBlockSize + endBlockSize) / 2| <= d / 2
MidpointDeviationWithin(e, f, d) ==
  /\ 2 * f.width - (e.startBlockSize + e.endBlockSize) <= d
  /\ (e.startBlockSize + e.endBlockSize) - 2 * f.width <= d

AbsDiff(a, b) == IF a >= b THEN a - b ELSE b - a

\* The shortest effect the trim handles of the timeline leave: 0.1 s.
MinEffectDuration == 10000

Contiguous(filters) ==
  \A i \in 1..(Len(filters) - 1) : filters[i].enable.t1 = filters[i + 1].enable.t0

\* C16 as stated: a lasting pixelate effect gives 16 sub-filters whose
\* windows start at timelineStart, end at timelineEnd and are contiguous, so
\* that every time in [timelineStart, timelineEnd) lies in some window.
C16_WindowsCoverEffect ==
  PixelateBuilt
    => LET e == calcArg.effect
           f == calcRet[1]
       IN /\ Len(f) = STEPS
          /\ 10 * f[1].enable.t0 = e.timelineStart
          /\ 10 * f[STEPS].enable.t1 = e.timelineEnd
          /\ Contiguous(f)
          /\ \A t \in e.timelineStart..(e.timelineEnd - 1) :
               \E i \in DOMAIN f : 10 * f[i].enable.t0 <= t /\ t <= 10 * f[i].enable.t1

\* A time rounded to four decimals is at most half a unit of 0.0001 s away.
RoundedToFourDecimals(fixed, ticks) == 2 * AbsDiff(10 * fixed, ticks) <= 10

\* C16 amended: a lasting pixelate effect gives 16 sub-filters whose
\* windows start at timelineStart rounded to four decimals, end at
\* timelineEnd rounded to four decimals and are contiguous, so that every
\* time between these two bounds lies in some window.
C16_WindowsCoverRoundedEffect ==
  PixelateBuilt
    => LET e == calcArg.effect
           f == calcRet[1]
       IN /\ Len(f) = STEPS
          /\ RoundedToFourDecimals(f[1].enable.t0, e.timelineStart)
          /\ RoundedToFourDecimals(f[STEPS].enable.t1, e.timelineEnd)
          /\ Contiguous(f)
          /\ \A i \in DOMAIN f : f[i].enable.t0 <= f[i].enable.t1
          /\ UNION {f[i].enable.t0..f[i].enable.t1 : i \in DOMAIN f}
               = f[1].enable.t0..f[STEPS].enable.t1

C16_Witness ==
  /\ PixelateBuilt
  /\ calcArg.effect = PixelateEffect(200004, 500006, 4, 48)
  /\ Len(calcRet[1]) = STEPS
  /\ calcRet[1][1].enable.t0 = 20000 /\ calcRet[1][STEPS].enable.t1 = 50001

\* The worded, highlighted caption of the input has been written.
KaraokeBuilt == calcRet # <<>> /\ IsKaraoke(calcArg.caption)

\* The words drawn wholly or partly in the highlight colour at time t.
HighlightedWords(cap, doc, t) ==
  {k \in DOMAIN cap.words : ToASSColor(cap.highlightColor) \in DrawnColours(doc, 1, k, t)}

\* C17: at every time t of the span of a caption with consecutive word
\* windows and a highlight colour, exactly one word is highlighted in the
\* rendering: the word whose [startTime, endTime) contains t.
C17_ExactlyOneHighlighted ==
  KaraokeBuilt
    => LET cap == calcArg.caption
       IN \A t \in cap.startTime..(cap.endTime - 1) :
            HighlightedWords(cap, calcRet[1], t)
              = {k \in DOMAIN cap.words : cap.words[k].startTime <= t /\ t < cap.words[k].endTime}

\* The final encode of job j has been spawned.
FinalSpawned(j) == finalArgs[j].built

\* C18: when video audio is muted and there is exactly one audio clip, the
\* final encode has exactly one audio input, trimmed to the clip's
\* [sourceStart, sourceEnd); that input is delayed by
\* round(timelineStart * 1000) ms; there is no mix stage.
C18_MutedOneAudioClip ==
  \A j \in Jobs :
    (FinalSpawned(j) /\ opts[j].muteVideoAudio /\ Len(opts[j].audioClips) = 1)
      => LET ac == opts[j].audioClips[1]
             a == finalArgs[j]
         IN /\ Len(a.audioInputs) = 1
            /\ a.audioInputs[1].i = ac.filePath
            /\ a.audioInputs[1].ss = ac.sourceStart
            /\ a.audioInputs[1].ss + a.audioInputs[1].t = ac.sourceEnd
            /\ Len(a.delays) = 1
            /\ a.delays[1].input = 1
            /\ a.delays[1].left = RoundDiv(ac.timelineStart, TicksPerMs)
            /\ a.delays[1].right = a.delays[1].left
            /\ a.mix.filter # "amix"
            /\ a.mix.inputs = <<a.delays[1].label>>

C18_Witness ==
  /\ Finished("A") /\ opts["A"].muteVideoAudio /\ Len(opts["A"].audioClips) = 1
  /\ opts["A"].audioClips[1].timelineStart = 10006
  /\ finalArgs["A"].delays[1].left = 1001
  /\ finalArgs["A"].mix.filter = "anull"

\* C19: the final encode carries an audio stream exactly when there is a
\* timed audio source (the clips when video audio is not muted, plus the
\* audio clips): without one it has no audio input and no audio graph and
\* drops audio (-an); with one or more it has one input and one delay per
\* source and maps exactly one audio output, the output of the mix stage.
TimedAudioSources(o) == (IF o.muteVideoAudio THEN 0 ELSE Len(o.clips)) + Len(o.audioClips)

AudioMaps(a) == {k \in DOMAIN a.maps : a.maps[k] # "vout"}

C19_AudioIffTimedSource ==
  \A j \in Jobs :
    FinalSpawned(j)
      => LET a == finalArgs[j]
             n == TimedAudioSources(opts[j])
         IN /\ Len(a.audioInputs) = n /\ Len(a.delays) = n
            /\ n = 0 => (a.an /\ ~a.filterComplex /\ a.mix = NoMixStage /\ AudioMaps(a) = {})
            /\ n > 0 => /\ ~a.an /\ a.filterComplex
                         /\ Cardinality(AudioMaps(a)) = 1
                         /\ \A k \in AudioMaps(a) : a.maps[k] = a.mix.out
                         /\ Len(a.mix.inputs) = n
                         /\ a.mix.filter = (IF n = 1 THEN "anull" ELSE "amix")

C19_Witness ==
  /\ Finished("A") /\ opts["A"].muteVideoAudio /\ opts["A"].audioClips = <<>>
  /\ finalArgs["A"].an /\ finalArgs["A"].audioInputs = <<>>

\* The visible text: the ASCII apostrophe is shown as the right single quote.
VisibleText(t) == ReplaceChar(t, Apostrophe, <<RightSingleQuote>>)

\* C20: the escaped caption text, read back by the rules of its target
\* language, is the original visible text, for the overlay string and for
\* the subtitle event text alike.
C20_EscapeRoundTrip ==
  calcRet # <<>>
    => /\ VisibleText(UnescapeOverlay(calcRet[1].overlay)) = VisibleText(calcArg)
       /\ VisibleText(UnescapeASS(calcRet[1].ass)) = VisibleText(calcArg)

\* Sub-filters enabled at time t (in units of 0.0001 s).
EnabledAt(filters, t) == {i \in DOMAIN filters : filters[i].enable.t0 <= t /\ t <= filters[i].enable.t1}

\* C27: at every instant between the first and the last bound of a pixelate
\* effect, the interior boundary times included, at most one of its 16
\* sub-filters is enabled.
C27_AtMostOneSubFilter ==
  PixelateBuilt
    => \A t \in calcRet[1][1].enable.t0..calcRet[1][STEPS].enable.t1 :
         Cardinality(EnabledAt(calcRet[1], t)) <= 1

\* The timed audio sources of a job: the clips in clip order when video audio
\* is not muted, then the audio clips. Times in ticks of 0.1 ms.
ExpectedSources(o) ==
  (IF o.muteVideoAudio THEN <<>>
   ELSE [k \in DOMAIN o.clips |->
           [filePath |-> o.clips[k].filePath, sourceStart |-> TicksPerUnit * o.clips[k].sourceStart,
            sourceEnd |-> TicksPerUnit * o.clips[k].sourceEnd,
            timelineStart |-> TicksPerUnit * o.clips[k].timelineStart]])
  \o [k \in DOMAIN o.audioClips |->
        [filePath |-> o.audioClips[k].filePath, sourceStart |-> o.audioClips[k].sourceStart,
         sourceEnd |-> o.audioClips[k].sourceEnd, timelineStart |-> o.audioClips[k].timelineStart]]

\* C23: with k >= 2 timed audio sources the audio graph has k delay stages;
\* stage i reads input i + 1, which is source i trimmed to
\* [sourceStart, sourceEnd), and delays it by round(timelineStart * 1000) ms;
\* one amix stage with inputs = k, normalize = 0 and dropout_transition = 0
\* consumes each delayed label exactly once.
C23_DelayAndMixStages ==
  \A j \in Jobs :
    (FinalSpawned(j) /\ TimedAudioSources(opts[j]) >= 2)
      => LET a == finalArgs[j]
             src == ExpectedSources(opts[j])
             k == Len(src)
         IN /\ Len(a.audioInputs) = k /\ Len(a.delays) = k
            /\ \A i \in 1..k :
                 /\ a.delays[i].input = i
                 /\ a.audioInputs[i].i = src[i].filePath
                 /\ a.audioInputs[i].ss = src[i].sourceStart
                 /\ a.audioInputs[i].ss + a.audioInputs[i].t = src[i].sourceEnd
                 /\ a.delays[i].left = RoundDiv(src[i].timelineStart, TicksPerMs)
                 /\ a.delays[i].right = a.delays[i].left
            /\ a.mix.filter = "amix"
            /\ Range(a.mix.options) = {<<"inputs", k>>, <<"normalize", 0>>, <<"dropout_transition", 0>>}
            /\ Len(a.mix.inputs) = k
            /\ Range(a.mix.inputs) = {a.delays[i].label : i \in 1..k}
            /\ Cardinality(Range(a.mix.inputs)) = k

C23_Witness ==
  /\ Finished("A") /\ ~opts["A"].muteVideoAudio
  /\ Len(opts["A"].clips) = 2 /\ Len(opts["A"].audioClips) = 1
  /\ opts["A"].audioClips[1].timelineStart = 10004
  /\ Len(finalArgs["A"].delays) = 3
  /\ finalArgs["A"].delays[2].left = 10 /\ finalArgs["A"].delays[3].left = 1000
  /\ finalArgs["A"].mix.filter = "amix"

ChainBuilt == calcRet # <<>>

\* C21 as stated: every pixelize filter, of a pixelate or of an ASCII-like
\* effect, precedes every desaturate (hue) and curves filter, and the caption
\* overlay, when present, is the last element of the chain.
CaptionOverlayLast(chain, hasAss) ==
  /\ hasAss => (chain # <<>> /\ chain[Len(chain)].filter = "ass")
  /\ \A k \in DOMAIN chain : chain[k].filter = "ass" => (hasAss /\ k = Len(chain))

C21_PixelizeBeforeColorRemap ==
  ChainBuilt
    => LET chain == calcRet[1]
       IN /\ \A i \in DOMAIN chain, k \in DOMAIN chain :
               (chain[i].filter = "pixelize" /\ chain[k].filter \in {"hue", "curves"}) => i < k
          /\ CaptionOverlayLast(chain, calcArg.hasAss)

\* The place of an effect type in the chain.
TypeRank(ty) ==
  CASE ty = "pixelate" -> 0 [] ty = "dither" -> 1 [] ty = "duotone" -> 2 [] ty = "ascii" -> 3
    [] ty = "chromatic_aberration" -> 4 [] OTHER -> 5

\* C21 amended: whatever the input order, every pixelize filter of a
\* pixelate effect precedes every desaturate and curves filter, the
\* primitives follow the type order pixelate, dither, duotone, ASCII-like,
\* chromatic aberration, and the caption overlay, when present, is last.
C21_FixedTypeOrder ==
  ChainBuilt
    => LET chain == calcRet[1]
       IN /\ \A i \in DOMAIN chain, k \in DOMAIN chain :
               (chain[i].of = "pixelate" /\ chain[k].filter \in {"hue", "curves"}) => i < k
          /\ \A i \in DOMAIN chain, k \in DOMAIN chain :
               i < k => TypeRank(chain[i].of) <= TypeRank(chain[k].of)
          /\ CaptionOverlayLast(chain, calcArg.hasAss)

C21_Witness ==
  /\ ChainBuilt /\ calcArg.hasAss
  /\ Len(calcArg.effects) = 2
  /\ calcArg.effects[1].type = "ascii" /\ calcArg.effects[2].type = "duotone"
  /\ Len(calcRet[1]) = 6
  /\ calcRet[1][1].filter = "hue" /\ calcRet[1][1].of = "duotone"
  /\ calcRet[1][3].filter = "pixelize" /\ calcRet[1][3].of = "ascii"
  /\ calcRet[1][6].filter = "ass"

\* The number of primitives an effect type lowers to.
PrimitiveCount(ty) ==
  CASE ty = "pixelate" -> STEPS [] ty = "duotone" -> 2 [] ty = "ascii" -> 3 [] ty = "dither" -> 2
    [] OTHER -> 1

Lasting(e) == e.timelineEnd > e.timelineStart

EffectPrimitives(chain) == SelectSeq(chain, LAMBDA f : f.of # "captions")

\* C22 as stated: every primitive has a gate within [timelineStart,
\* timelineEnd] of a lasting effect of its type, with exactly these bounds
\* unless the effect is a pixelate effect, and only lasting effects emit
\* primitives.
C22_GatedWithinWindow ==
  ChainBuilt
    => LET prims == EffectPrimitives(calcRet[1])
           effs == calcArg.effects
       IN /\ Len(prims) = SumSeq([k \in DOMAIN effs |->
                                    IF Lasting(effs[k]) THEN PrimitiveCount(effs[k].type) ELSE 0])
          /\ \A i \in DOMAIN prims :
               \E k \in DOMAIN effs :
                 /\ effs[k].type = prims[i].of /\ Lasting(effs[k])
                 /\ effs[k].timelineStart <= 10 * prims[i].enable.t0
                 /\ prims[i].enable.t0 <= prims[i].enable.t1
                 /\ 10 * prims[i].enable.t1 <= effs[k].timelineEnd
                 /\ prims[i].of # "pixelate"
                      => /\ 10 * prims[i].enable.t0 = effs[k].timelineStart
                         /\ 10 * prims[i].enable.t1 = effs[k].timelineEnd

\* C22 amended: the same with timelineStart and timelineEnd rounded to four
\* decimals.
C22_GatedWithinRoundedWindow ==
  ChainBuilt
    => LET prims == EffectPrimitives(calcRet[1])
           effs == calcArg.effects
       IN /\ Len(prims) = SumSeq([k \in DOMAIN effs |->
                                    IF Lasting(effs[k]) THEN PrimitiveCount(effs[k].type) ELSE 0])
          /\ \A i \in DOMAIN prims :
               \E k \in DOMAIN effs, d0 \in {0, 1}, d1 \in {0, 1} :
                 LET lo == (effs[k].timelineStart \div 10) + d0
                     hi == (effs[k].timelineEnd \div 10) + d1
                 IN
                 /\ effs[k].type = prims[i].of /\ Lasting(effs[k])
                 /\ RoundedToFourDecimals(lo, effs[k].timelineStart)
                 /\ RoundedToFourDecimals(hi, effs[k].timelineEnd)
                 /\ lo <= prims[i].enable.t0
                 /\ prims[i].enable.t0 <= prims[i].enable.t1
                 /\ prims[i].enable.t1 <= hi
                 /\ prims[i].of # "pixelate" => (lo = prims[i].enable.t0 /\ hi = prims[i].enable.t1)

C22_Witness ==
  /\ ChainBuilt /\ ~calcArg.hasAss
  /\ Len(calcArg.effects) = 2
  /\ calcArg.effects[1] = TypedEffect("dither", 300000, 300000, 0)
  /\ calcArg.effects[2] = TypedEffect("chromatic_aberration", 200004, 500006, 0)
  /\ Len(calcRet[1]) = 1
  /\ calcRet[1][1].enable = [t0 |-> 20000, t1 |-> 50001]

\* ------------------------------------------------------------------------
\* Font resolver: order of the tiers, size of returned files, overlap

IsPrefix(a, b) == Len(a) <= Len(b) /\ \A i \in 1..Len(a) : a[i] = b[i]

\* The client identities and endpoints of the CSS API in the order listed:
\* every endpoint with the first identity, then every endpoint with the second.
CssOrder ==
  [i \in 1..(Len(UserAgents) * Len(CssApis)) |->
     [ua |-> ((i - 1) \div Len(CssApis)) + 1, api |-> ((i - 1) % Len(CssApis)) + 1]]

TierChain(family, b) ==
  <<Attempt("cache", b, FirstCss)>>
    \o (IF GhUrl(family, b) # NoUrl THEN <<Attempt("github", b, FirstCss)>> ELSE <<>>)
    \o [i \in 1..Len(CssOrder) |-> Attempt("css", b, CssOrder[i])]

TierOrder(family, bold) == TierChain(family, bold) \o (IF bold THEN TierChain(family, FALSE) ELSE <<>>)

\* The entry of the resolution a resolver finished last.
HasFinished(r) == \E k \in 1..Len(resolved) : resolved[k].by = r

LastOf(r) ==
  resolved[CHOOSE k \in 1..Len(resolved) :
             resolved[k].by = r /\ \A j \in (k + 1)..Len(resolved) : resolved[j].by # r]

\* C24: the tiers are tried strictly in the order cache, static file, CSS API
\* (each client identity with each endpoint, as listed), then for a bold
\* request the same chain for the regular weight, then the system font. What
\* a resolution has tried is always an initial part of that order; a cache
\* path is returned by the last tier tried and ends the search; the system
\* font is returned only when every tier was tried; and a bold request for a
\* family without a bold static file never tries the static-file download for
\* the bold weight.
C24_TiersInOrder ==
  \A r \in Resolvers :
    /\ rpc[r] # "idle" => IsPrefix(rlog[r], TierOrder(rreq[r].family, rreq[r].bold))
    /\ (rpc[r] = "idle" /\ HasFinished(r) /\ LastOf(r).family # "") =>
         LET e == LastOf(r)
             tried == rlog[r]
         IN /\ IsPrefix(tried, TierOrder(e.family, e.bold))
            /\ e.path = SystemFontPath(e.bold) => tried = TierOrder(e.family, e.bold)
            /\ e.path[1] = "fonts" =>
                 /\ tried # <<>>
                 /\ e.path = FontPath(e.family, tried[Len(tried)].bold)
            /\ (e.bold /\ FontTtfUrls(e.family).bold = NoUrl) =>
                 \A i \in 1..Len(tried) : ~(tried[i].tier = "github" /\ tried[i].bold)

\* A bold request for Inter, whose table entry has no bold file, went through
\* every tier of both weights and ended with the system font.
C24_Witness ==
  /\ rpc["export"] = "idle"
  /\ HasFinished("export")
  /\ LastOf("export").family = "Inter"
  /\ LastOf("export").bold
  /\ LastOf("export").path = SystemFontPath(TRUE)
  /\ Len(rlog["export"]) = 2 * Len(CssOrder) + 3

\* Cache paths a finished resolution gave up on.
FailedPaths(e) ==
  {FontPath(e.family, b) : b \in {b \in BOOLEAN : e.family # "" /\ ((b = e.bold /\ e.thrown >= 1) \/ (~b /\ e.thrown >= 2))}}

AllIdle == \A r \in Resolvers : rpc[r] = "idle"

C26_NoPartialFileReturned ==
  \A k \in 1..Len(resolved) : ~resolved[k].partial

\* ------------------------------------------------------------------------
\* Export dialog: word windows

ExportedWords == Flatten([i \in 1..Len(calcRet) |-> calcRet[i].wordOffsets])

\* Half-steps of the time grid, so that an instant strictly inside the
\* shortest window is among them.
HalfSteps == 0..(2 * (3 * (MaxWords + 1) + 2))

\* C28: for a caption with word timestamps, whatever their order, the first
\* adjusted word starts at the caption's startTime, every adjusted word ends
\* at least 0.01 s after it starts and starts at or after the end of the one
\* before; so every exported line ends after it starts and no instant lies
\* strictly inside two word windows.
C28_MonotoneWordWindows ==
  (calcRet # <<>> /\ Len(calcArg.cap.words) > 0) =>
    LET ws == ExportedWords
    IN /\ Len(ws) = Len(calcArg.cap.words)
       /\ ws[1].start = calcArg.cap.startTime
       /\ \A i \in 1..Len(ws) : ws[i].end >= ws[i].start + MinWordWindow
       /\ \A i \in 2..Len(ws) : ws[i].start >= ws[i - 1].end
       /\ \A i \in 1..Len(calcRet) : calcRet[i].endTime > calcRet[i].startTime
       /\ \A u \in HalfSteps :
            Cardinality({i \in 1..Len(ws) : 2 * ws[i].start < u /\ u < 2 * ws[i].end}) <= 1

\* Three words whose timestamps regress (the second starts before the first
\* ends, the third before the second starts), exported on two lines.
C28_Witness ==
  /\ calcRet # <<>>
  /\ Len(calcArg.cap.words) = 3
  /\ calcArg.cap.words[2].start < calcArg.cap.words[1].end
  /\ calcArg.cap.words[3].start < calcArg.cap.words[2].start
  /\ calcArg.cap.startTime # calcArg.cap.words[1].start
  /\ Len(calcRet) = 2

\* ------------------------------------------------------------------------
\* Project store: captions after deoverlapArr, history stacks

ViaDeoverlapArr == lastOp.op \in {"addCaptions", "deoverlapCaptions"}

ValidInput == \A i \in 1..Len(lastOp.input) : lastOp.input[i].endTime > lastOp.input[i].startTime

\* C29: after addCaptions or deoverlapCaptions applied to captions that each
\* end after they start, the caption list is sorted ascending by startTime,
\* no caption runs into its successor, and every caption still ends after it
\* starts.
C29_SortedDisjointPositive ==
  (ViaDeoverlapArr /\ ValidInput) =>
    LET cs == project.captions
    IN /\ \A i \in 2..Len(cs) : cs[i - 1].startTime <= cs[i].startTime
       /\ \A i \in 2..Len(cs) : cs[i - 1].endTime <= cs[i].startTime
       /\ \A i \in 1..Len(cs) : cs[i].endTime > cs[i].startTime

HistoryLimit == HistoryKeep + 1

HistoryRecording == lastOp.op \in {"addCaptions", "deoverlapCaptions", "pushUndo"}

\* C30: the past stack never holds more than 50 projects; after a mutation
\* that records history (withHistory or pushUndo) the future stack is empty;
\* and a redo that follows an undo of a non-empty past stack leaves the
\* project that was current before the undo.
C30_BoundedHistoryUndoRedo ==
  /\ Len(past) <= HistoryLimit
  /\ HistoryRecording => future = <<>>
  /\ (lastOp.op = "redo" /\ lastOp.undone # NoProject) => (lastOp.acted /\ project = lastOp.undone)

\* More edits than the past stack holds were made, and the last one was
\* undone and redone.
C30_Witness ==
  /\ Len(past) = HistoryLimit
  /\ Len(project.captions) > HistoryLimit
  /\ lastOp.op = "redo"
  /\ lastOp.undone # NoProject
  /\ project = lastOp.undone

====
